---- MODULE Spec2Model ----
(***************************************************************************)
(* Verification model of sh::pointer: the packed reference counter of a    *)
(* control block (sh/shared_ptr.hpp, class control) and the spinlock       *)
(* encoded atomic pointers built on it (sh/atomic_shared_ptr.hpp,          *)
(* sh/atomic_wide_shared_ptr.hpp).                                         *)
(*                                                                         *)
(* SpecCounter : one control block, its holders calling the counter        *)
(*               operations; every atomic access and every callback is one *)
(*               step.                                                     *)
(* SpecAtomic  : one atomic object, single word (atomic_convertible_       *)
(*               control) or double word (atomic_control_and_value), with  *)
(*               the shared or the weak policy, and the threads using it;  *)
(*               every access to the lock word is one step.  Memory is     *)
(*               sequentially consistent in both specifications, but for   *)
(*               the unlock store of load(), which takes effect after the  *)
(*               increment made before it only if its order says so.       *)
(***************************************************************************)
EXTENDS Integers, FiniteSets, Sequences, TLC

(***************************************************************************)
(* Bounds of the model.                                                    *)
(***************************************************************************)
NumThreads == 3
MaxRefs == 3
NumUsers == 2
MaxOps == 2

NumWaiters == 2
NumPtrs == 2

Threads == 1..NumThreads
Users == 1..NumUsers

(***************************************************************************)
(* control::counter_t and its quanta.  The source packs two 32 bit halves  *)
(* into a 64 bit word; TLC evaluates with 32 bit integers, so the model    *)
(* keeps the same packing with halves of HalfBits bits.  All arithmetic on *)
(* the counter wraps modulo the counter width, as an unsigned word does.   *)
(***************************************************************************)
HalfBits == 15
control_one == 2 ^ HalfBits
value_one == 1
weak_one == control_one
shared_one_value_only == value_one
shared_one == control_one + value_one
CounterMod == control_one * control_one

to_value_count(c) == c % control_one
fetch_add(c, quantum) == (c + quantum) % CounterMod
fetch_sub(c, quantum) == (c - quantum) % CounterMod

\* the control half of a counter word (used by the properties only)
to_control_count(c) == c \div control_one

VARIABLES
    m_counter,      \* control::m_counter
    m_destructed,   \* control::m_destructed (set by validate_destruct)
    m_deallocated,  \* control::m_deallocated (set by validate_deallocate)
    destructCalls,  \* sequence of threads that invoked m_destruct
    deallocCalls,   \* sequence of threads that invoked m_deallocate
    failed,         \* assertions of validate_* that did not hold when run
    freedAccess,    \* steps made on the block after m_deallocate ran
    zeroedBy,       \* sequence of threads whose decrement took the value half 1 -> 0
    pc,             \* per thread: position inside a counter operation
    counter,        \* per thread: local 'counter' of shared_inc_if_nonzero
    strong,         \* per thread: strong references held
    weak,           \* per thread: weak references held
    constructed,    \* the atomic object exists (constructed and not yet destroyed)
    wide,           \* TRUE: atomic_control_and_value, FALSE: atomic_convertible_control
    policy,         \* "shared" (shared_policy) or "weak" (weak_policy)
    m_ctrl,         \* the lock word of the atomic (pointer plus meta data bits)
    m_value,        \* atomic_control_and_value::m_value
    ctl,            \* per control block: m_counter, m_destructed, m_deallocated
    ctrl_meta,      \* per user: local expected / ctrl_meta of the locking loop
    value,          \* per user: local copy of m_value
    toggle_notify,  \* per user: local toggle_notify
    expected,       \* per user: the pointer it owns as expected / old / result
    desired,        \* per user: the pointer it owns as desired
    installed,      \* the (control, value) pairs installed together so far
    notified,       \* "each": every mutation so far was followed by a notify that
                    \* reached every blocked waiter; "pending": the last one was
                    \* not yet; "missed": two mutations with no notify between
    ops             \* per user: operations started

counterVars == <<m_counter, m_destructed, m_deallocated, destructCalls, deallocCalls,
                 zeroedBy, counter, strong, weak>>

atomicVars == <<constructed, wide, policy, m_ctrl, m_value, ctl, ctrl_meta, value, toggle_notify,
                expected, desired, installed, notified, ops>>

vars == <<m_counter, m_destructed, m_deallocated, destructCalls, deallocCalls,
          failed, freedAccess, zeroedBy, pc, counter, strong, weak,
          constructed, wide, policy, m_ctrl, m_value, ctl, ctrl_meta, value,
          toggle_notify, expected, desired, installed, notified, ops>>

RECURSIVE SumOver(_, _)
SumOver(f, S) == IF S = {} THEN 0
                 ELSE LET x == CHOOSE y \in S : TRUE IN f[x] + SumOver(f, S \ {x})

HeldStrong == SumOver(strong, Threads)
HeldWeak == SumOver(weak, Threads)

(***************************************************************************)
(* State after make_shared: control(shared_one, operations), one strong    *)
(* owner.                                                                  *)
(***************************************************************************)
InitCounter ==
    /\ m_counter = shared_one
    /\ m_destructed = FALSE
    /\ m_deallocated = FALSE
    /\ destructCalls = <<>>
    /\ deallocCalls = <<>>
    /\ failed = {}
    /\ freedAccess = {}
    /\ zeroedBy = <<>>
    /\ pc = [t \in Threads |-> "idle"]
    /\ counter = [t \in Threads |-> 0]
    /\ strong = [t \in Threads |-> IF t = 1 THEN 1 ELSE 0]
    /\ weak = [t \in Threads |-> 0]
    /\ constructed = FALSE
    /\ wide = FALSE /\ policy = "shared" /\ m_ctrl = 0 /\ m_value = 0
    /\ ctl = <<>> /\ ctrl_meta = <<>> /\ value = <<>> /\ toggle_notify = <<>>
    /\ expected = <<>> /\ desired = <<>> /\ installed = {} /\ notified = FALSE
    /\ ops = <<>>

\* a step that reads or writes m_counter; after deallocate the block is freed memory
Touch(what) == freedAccess' = IF m_deallocated THEN freedAccess \cup {what} ELSE freedAccess

(***************************************************************************)
(* The callbacks of control_operations, with the debug validation.         *)
(***************************************************************************)
validate_destruct ==
    /\ failed' = failed
                 \cup (IF m_destructed THEN {"destruct: already destructed"} ELSE {})
                 \cup (IF m_deallocated THEN {"destruct: already deallocated"} ELSE {})
    /\ m_destructed' = TRUE

validate_deallocate ==
    /\ failed' = failed
                 \cup (IF ~m_destructed THEN {"deallocate: not destructed yet"} ELSE {})
                 \cup (IF m_deallocated THEN {"deallocate: already deallocated"} ELSE {})
    /\ m_deallocated' = TRUE

m_destruct(t) ==
    /\ validate_destruct
    /\ destructCalls' = Append(destructCalls, t)
    /\ Touch("destruct")
    /\ UNCHANGED <<m_deallocated, deallocCalls>>

m_deallocate(t) ==
    /\ validate_deallocate
    /\ deallocCalls' = Append(deallocCalls, t)
    /\ Touch("deallocate")
    /\ UNCHANGED <<m_destructed, destructCalls>>

NoCallback == UNCHANGED <<m_destructed, m_deallocated, destructCalls, deallocCalls, failed>>

\* ghost: remember the thread whose decrement took the value half from 1 to 0
NoteZero(t, prev, next) ==
    zeroedBy' = IF to_value_count(prev) = 1 /\ to_value_count(next) = 0
                THEN Append(zeroedBy, t) ELSE zeroedBy

(***************************************************************************)
(* control::shared_inc                                                     *)
(***************************************************************************)
shared_inc(t) ==
    /\ UNCHANGED atomicVars
    /\ pc[t] = "idle"
    /\ strong[t] > 0
    /\ to_control_count(m_counter) < MaxRefs
    /\ m_counter' = fetch_add(m_counter, shared_one)
    /\ strong' = [strong EXCEPT ![t] = @ + 1]
    /\ Touch("shared_inc")
    /\ NoCallback
    /\ UNCHANGED <<zeroedBy, pc, counter, weak>>

(***************************************************************************)
(* control::shared_dec                                                     *)
(***************************************************************************)
shared_dec_branch_always_deallocate(prev) ==
    IF to_value_count(prev) = 1 THEN "sd_destruct_deallocate" ELSE "idle"

shared_dec_branch_never_deallocate(prev) ==
    IF to_value_count(prev) = 1 THEN "sd_destruct" ELSE "idle"

shared_dec_branch_eager(prev) ==
    IF prev = shared_one THEN "sd_destruct_deallocate"
    ELSE IF to_value_count(prev) <= 2 THEN "sd_destruct"
    ELSE "idle"

\* the branch taken on the pre-decrement value
shared_dec_branch(prev) ==
    IF prev = shared_one THEN "sd_destruct_deallocate"
    ELSE IF to_value_count(prev) = 1 THEN "sd_destruct"
    ELSE "idle"

shared_dec_fetch_sub(t) ==
    /\ UNCHANGED atomicVars
    /\ pc[t] = "idle"
    /\ strong[t] > 0
    /\ m_counter' = fetch_sub(m_counter, shared_one)
    /\ strong' = [strong EXCEPT ![t] = @ - 1]
    /\ pc' = [pc EXCEPT ![t] = shared_dec_branch(m_counter)]
    /\ NoteZero(t, m_counter, m_counter')
    /\ Touch("shared_dec")
    /\ NoCallback
    /\ UNCHANGED <<counter, weak>>

shared_dec_destruct(t) ==
    /\ UNCHANGED atomicVars
    /\ pc[t] \in {"sd_destruct_deallocate", "sd_destruct"}
    /\ m_destruct(t)
    /\ pc' = [pc EXCEPT ![t] = IF pc[t] = "sd_destruct_deallocate" THEN "sd_deallocate" ELSE "idle"]
    /\ UNCHANGED <<m_counter, zeroedBy, counter, strong, weak>>

shared_dec_deallocate(t) ==
    /\ UNCHANGED atomicVars
    /\ pc[t] = "sd_deallocate"
    /\ m_deallocate(t)
    /\ pc' = [pc EXCEPT ![t] = "idle"]
    /\ UNCHANGED <<m_counter, zeroedBy, counter, strong, weak>>

(***************************************************************************)
(* control::shared_inc_if_nonzero                                          *)
(***************************************************************************)
shared_inc_if_nonzero_load(t) ==
    /\ UNCHANGED atomicVars
    /\ pc[t] = "idle"
    /\ weak[t] > 0
    /\ to_control_count(m_counter) < MaxRefs
    /\ counter' = [counter EXCEPT ![t] = m_counter]
    /\ pc' = [pc EXCEPT ![t] = "sinz_loop"]
    /\ Touch("shared_inc_if_nonzero")
    /\ NoCallback
    /\ UNCHANGED <<m_counter, zeroedBy, strong, weak>>

shared_inc_if_nonzero_test_always(c) == TRUE

shared_inc_if_nonzero_test_whole(c) == c > 0

\* the loop condition: the value half of the local copy is nonzero
shared_inc_if_nonzero_test(c) == to_value_count(c) > 0

\* one evaluation of the while condition and, if it holds, of the
\* compare_exchange_weak (a spurious failure reloads the same value and
\* changes nothing).  Leaving the loop returns added_shared_inc (the caller
\* now owns a strong reference) or no_inc.
shared_inc_if_nonzero_loop(t) ==
    /\ UNCHANGED atomicVars
    /\ pc[t] = "sinz_loop"
    /\ IF shared_inc_if_nonzero_test(counter[t])
       THEN /\ Touch("shared_inc_if_nonzero")
            /\ IF m_counter = counter[t]
               THEN /\ m_counter' = fetch_add(m_counter, shared_one)
                    /\ strong' = [strong EXCEPT ![t] = @ + 1]
                    /\ pc' = [pc EXCEPT ![t] = "idle"]
                    /\ counter' = [counter EXCEPT ![t] = 0]
               ELSE /\ counter' = [counter EXCEPT ![t] = m_counter]
                    /\ UNCHANGED <<m_counter, strong, pc>>
       ELSE /\ pc' = [pc EXCEPT ![t] = "idle"]
            /\ counter' = [counter EXCEPT ![t] = 0]
            /\ UNCHANGED <<m_counter, strong, freedAccess>>
    /\ NoCallback
    /\ UNCHANGED <<zeroedBy, weak>>

(***************************************************************************)
(* control::value_dec_for_shared_to_weak                                   *)
(***************************************************************************)
value_dec_branch_never(prev) == "idle"

value_dec_branch(prev) == IF to_value_count(prev) = 1 THEN "vd_destruct" ELSE "idle"

value_dec_fetch_sub(t) ==
    /\ UNCHANGED atomicVars
    /\ pc[t] = "idle"
    /\ strong[t] > 0
    /\ m_counter' = fetch_sub(m_counter, value_one)
    /\ strong' = [strong EXCEPT ![t] = @ - 1]
    /\ weak' = [weak EXCEPT ![t] = @ + 1]
    /\ pc' = [pc EXCEPT ![t] = value_dec_branch(m_counter)]
    /\ NoteZero(t, m_counter, m_counter')
    /\ Touch("value_dec_for_shared_to_weak")
    /\ NoCallback
    /\ UNCHANGED counter

value_dec_destruct(t) ==
    /\ UNCHANGED atomicVars
    /\ pc[t] = "vd_destruct"
    /\ m_destruct(t)
    /\ pc' = [pc EXCEPT ![t] = "idle"]
    /\ UNCHANGED <<m_counter, zeroedBy, counter, strong, weak>>

(***************************************************************************)
(* control::weak_inc                                                       *)
(***************************************************************************)
weak_inc(t) ==
    /\ UNCHANGED atomicVars
    /\ pc[t] = "idle"
    /\ strong[t] + weak[t] > 0
    /\ to_control_count(m_counter) < MaxRefs
    /\ m_counter' = fetch_add(m_counter, weak_one)
    /\ weak' = [weak EXCEPT ![t] = @ + 1]
    /\ Touch("weak_inc")
    /\ NoCallback
    /\ UNCHANGED <<zeroedBy, pc, counter, strong>>

(***************************************************************************)
(* control::weak_dec                                                       *)
(***************************************************************************)
weak_dec_peek_no_value(c) == IF to_value_count(c) = 0 THEN "wd_deallocate_fast" ELSE "wd_fetch_sub"

\* the peek before the decrement: is this the last reference?
weak_dec_peek(c) == IF c = weak_one THEN "wd_deallocate_fast" ELSE "wd_fetch_sub"

weak_dec_load(t) ==
    /\ UNCHANGED atomicVars
    /\ pc[t] = "idle"
    /\ weak[t] > 0
    /\ weak' = [weak EXCEPT ![t] = @ - 1]
    /\ pc' = [pc EXCEPT ![t] = weak_dec_peek(m_counter)]
    /\ Touch("weak_dec")
    /\ NoCallback
    /\ UNCHANGED <<m_counter, zeroedBy, counter, strong>>

weak_dec_branch(prev) == IF prev = weak_one THEN "wd_deallocate" ELSE "idle"

weak_dec_fetch_sub(t) ==
    /\ UNCHANGED atomicVars
    /\ pc[t] = "wd_fetch_sub"
    /\ m_counter' = fetch_sub(m_counter, weak_one)
    /\ pc' = [pc EXCEPT ![t] = weak_dec_branch(m_counter)]
    /\ Touch("weak_dec")
    /\ NoCallback
    /\ UNCHANGED <<zeroedBy, counter, strong, weak>>

weak_dec_deallocate(t) ==
    /\ UNCHANGED atomicVars
    /\ pc[t] \in {"wd_deallocate_fast", "wd_deallocate"}
    /\ m_deallocate(t)
    /\ pc' = [pc EXCEPT ![t] = "idle"]
    /\ UNCHANGED <<m_counter, zeroedBy, counter, strong, weak>>

(***************************************************************************)
(* A holder moves one of its references to another thread (a move of a     *)
(* shared_ptr / weak_ptr: no counter access).                              *)
(***************************************************************************)
give_strong(t, u) ==
    /\ UNCHANGED atomicVars
    /\ t # u
    /\ pc[t] = "idle" /\ pc[u] = "idle"
    /\ strong[t] > 0
    /\ strong' = [strong EXCEPT ![t] = @ - 1, ![u] = @ + 1]
    /\ NoCallback
    /\ UNCHANGED <<m_counter, freedAccess, zeroedBy, pc, counter, weak>>

give_weak(t, u) ==
    /\ UNCHANGED atomicVars
    /\ t # u
    /\ pc[t] = "idle" /\ pc[u] = "idle"
    /\ weak[t] > 0
    /\ weak' = [weak EXCEPT ![t] = @ - 1, ![u] = @ + 1]
    /\ NoCallback
    /\ UNCHANGED <<m_counter, freedAccess, zeroedBy, pc, counter, strong>>

NextCounter ==
    \E t \in Threads :
        \/ shared_inc(t)
        \/ shared_dec_fetch_sub(t)
        \/ shared_dec_destruct(t)
        \/ shared_dec_deallocate(t)
        \/ shared_inc_if_nonzero_load(t)
        \/ shared_inc_if_nonzero_loop(t)
        \/ value_dec_fetch_sub(t)
        \/ value_dec_destruct(t)
        \/ weak_inc(t)
        \/ weak_dec_load(t)
        \/ weak_dec_fetch_sub(t)
        \/ weak_dec_deallocate(t)
        \/ \E u \in Threads : give_strong(t, u)
        \/ \E u \in Threads : give_weak(t, u)

SpecCounter == InitCounter /\ [][NextCounter]_vars

(***************************************************************************)
(* Properties of the counter protocol (SpecCounter).                       *)
(***************************************************************************)
AllIdle == \A t \in Threads : pc[t] = "idle"

\* threads inside weak_dec whose control unit is still in the counter
WeakDecPending == {t \in Threads : pc[t] \in {"wd_fetch_sub", "wd_deallocate_fast"}}

\* C1: the destruct callback is invoked at most once, only by the thread whose
\* decrement took the value half from 1 to 0, only when the value half is zero
\* and no strong reference is held, and it has been invoked exactly once when
\* the value half was driven to zero and every operation has returned.
DestructExactlyOnce ==
    /\ Len(destructCalls) <= 1
    /\ Len(zeroedBy) <= 1
    /\ destructCalls # <<>> =>
          /\ destructCalls = zeroedBy
          /\ to_value_count(m_counter) = 0
          /\ HeldStrong = 0
    /\ (AllIdle /\ zeroedBy # <<>>) => Len(destructCalls) = 1

\* C1 witness: destruct has run, invoked by a thread other than the first owner,
\* while weak references remain
DestructOnceWitness ==
    /\ Len(destructCalls) = 1
    /\ destructCalls[1] # 1
    /\ HeldWeak > 0

\* C2: deallocate is invoked only after destruct has been invoked: the
\* assertion m_destructed == true of validate_deallocate never fails.
DeallocateAfterDestruct ==
    /\ "deallocate: not destructed yet" \notin failed
    /\ deallocCalls # <<>> => destructCalls # <<>>

\* C3: the deallocate callback is invoked at most once, never while a strong
\* or weak reference is held, and it has been invoked exactly once when all
\* references are released and every operation has returned.
DeallocateExactlyOnce ==
    /\ Len(deallocCalls) <= 1
    /\ deallocCalls # <<>> => (HeldStrong = 0 /\ HeldWeak = 0)
    /\ (AllIdle /\ HeldStrong = 0 /\ HeldWeak = 0) => Len(deallocCalls) = 1

\* C3 witness: deallocate has run, invoked by a weak_dec, after references
\* had been spread over several threads
DeallocateOnceWitness ==
    /\ Len(deallocCalls) = 1
    /\ deallocCalls[1] # 1
    /\ AllIdle

\* C4: after deallocate has been invoked no step touches the block: no counter
\* access and no destruct callback.
NoAccessAfterDeallocate == freedAccess = {}

\* C5: the value half never exceeds the control half and neither half wraps:
\* the value half counts exactly the strong references held, the control half
\* the strong and weak references held plus the weak_dec calls that have not
\* subtracted yet (the counter exists until deallocate releases its memory).
CounterHalvesOrdered ==
    /\ to_value_count(m_counter) <= to_control_count(m_counter)
    /\ to_value_count(m_counter) = HeldStrong
    /\ ~m_deallocated =>
          to_control_count(m_counter) = HeldStrong + HeldWeak + Cardinality(WeakDecPending)

\* C5 witness: strong and weak references coexist while a decrement is in progress
CounterHalvesWitness ==
    /\ to_value_count(m_counter) >= 1
    /\ to_control_count(m_counter) > to_value_count(m_counter)
    /\ \E t \in Threads : pc[t] \in {"wd_fetch_sub", "sd_destruct", "vd_destruct"}

\* C6: once a decrement has taken the value half to zero it stays zero and a
\* shared_inc_if_nonzero leaving its loop adds nothing (no_inc); a
\* shared_inc_if_nonzero that adds a strong reference does so while the value
\* half is nonzero, and destruct is invoked only when no strong reference is held.
PromotionAtomic ==
    [][ /\ zeroedBy # <<>> => to_value_count(m_counter') = 0
        /\ \A t \in Threads :
              (pc[t] = "sinz_loop" /\ strong'[t] > strong[t]) =>
                  /\ to_value_count(m_counter) > 0
                  /\ zeroedBy = <<>>
                  /\ destructCalls' = <<>>
        /\ destructCalls' # destructCalls => HeldStrong = 0
      ]_vars

\* C6 witness: a promotion loaded a nonzero value half and the last strong
\* reference was released before its compare-exchange
PromotionRaceWitness ==
    \E t \in Threads :
        /\ pc[t] = "sinz_loop"
        /\ to_value_count(counter[t]) > 0
        /\ zeroedBy # <<>>

(***************************************************************************)
(* The atomic objects.                                                     *)
(*                                                                         *)
(* Control blocks live at addresses aligned to 4, so that the two low bits *)
(* of a control pointer are free for bit_locked and bit_notify; value      *)
(* pointers are small numbers; nullptr is 0.  A pointer owned by a thread  *)
(* is the pair <<control pointer, value pointer>>; on the single word      *)
(* atomic the value pointer is a fixed offset of the control pointer and   *)
(* is kept 0.                                                              *)
(***************************************************************************)
nullptr == 0
Blocks == {4, 8}
ValuePtrs == {1, 2}
NullPair == <<nullptr, nullptr>>

bit_locked == 1
bit_notify == 2

has_bit(w, bit) == (w \div bit) % 2 = 1
clear_bit(w, bit) == IF has_bit(w, bit) THEN w - bit ELSE w
set_bit_omitted(w, bit) == w
set_bit(w, bit) == IF has_bit(w, bit) THEN w ELSE w + bit
toggle_bit(w, bit) == IF has_bit(w, bit) THEN w - bit ELSE w + bit

\* the control block an address lies in
BlockOf(p) == p - (p % 4)

(***************************************************************************)
(* State after construction: the atomic was constructed from a pointer to  *)
(* the first block, every user owns a copy of that pointer (expected) and  *)
(* a second pointer (desired): an alias of the first block with another    *)
(* value pointer, or a pointer to the second block.  With the weak policy  *)
(* all references are weak and the values have been destructed.            *)
(***************************************************************************)
InitialPair(w) == IF w THEN <<4, 1>> ELSE <<4, nullptr>>

InitialDesired(w, t) ==
    IF t % 2 = 1 THEN (IF w THEN <<4, 2>> ELSE <<4, nullptr>>)
    ELSE (IF w THEN <<8, 1>> ELSE <<8, nullptr>>)

InitialRefs(w, b) ==
    (IF b = 4 THEN 1 + NumUsers ELSE 0)
    + Cardinality({t \in Users : InitialDesired(w, t)[1] = b})

InitialControl(pol, n) ==
    IF pol = "shared"
    THEN [m_counter |-> n * shared_one, m_destructed |-> FALSE, m_deallocated |-> FALSE]
    ELSE [m_counter |-> n * weak_one, m_destructed |-> TRUE, m_deallocated |-> FALSE]

InitAtomic ==
    /\ constructed = TRUE
    /\ wide \in BOOLEAN
    /\ policy \in {"shared", "weak"}
    /\ m_ctrl = InitialPair(wide)[1]
    /\ m_value = InitialPair(wide)[2]
    /\ ctl = [b \in Blocks |-> InitialControl(policy, InitialRefs(wide, b))]
    /\ ctrl_meta = [t \in Users |-> 0]
    /\ value = [t \in Users |-> 0]
    /\ toggle_notify = [t \in Users |-> FALSE]
    /\ expected = [t \in Users |-> InitialPair(wide)]
    /\ desired = [t \in Users |-> InitialDesired(wide, t)]
    /\ installed = {InitialPair(wide)}
    /\ notified = "each"
    /\ ops = [t \in Users |-> 0]
    /\ pc = [t \in Users |-> "idle"]
    /\ failed = {}
    /\ freedAccess = {}
    /\ m_counter = 0 /\ m_destructed = FALSE /\ m_deallocated = FALSE
    /\ destructCalls = <<>> /\ deallocCalls = <<>> /\ zeroedBy = <<>>
    /\ counter = <<>> /\ strong = <<>> /\ weak = <<>>

(***************************************************************************)
(* shared_policy / weak_policy: increment and decrement of a control       *)
(* block, each applied as one step to the block's record.                  *)
(***************************************************************************)
control_shared_inc_control_only(c) == [c EXCEPT !.m_counter = fetch_add(@, weak_one)]
control_shared_inc(c) == [c EXCEPT !.m_counter = fetch_add(@, shared_one)]
control_weak_inc_as_shared(c) == [c EXCEPT !.m_counter = fetch_add(@, shared_one)]
control_weak_inc(c) == [c EXCEPT !.m_counter = fetch_add(@, weak_one)]

control_shared_dec(c) ==
    LET branch == shared_dec_branch(c.m_counter) IN
    [m_counter |-> fetch_sub(c.m_counter, shared_one),
     m_destructed |-> c.m_destructed \/ branch \in {"sd_destruct_deallocate", "sd_destruct"},
     m_deallocated |-> c.m_deallocated \/ branch = "sd_destruct_deallocate"]

control_weak_dec(c) ==
    IF weak_dec_peek(c.m_counter) = "wd_deallocate_fast"
    THEN [c EXCEPT !.m_deallocated = TRUE]
    ELSE [m_counter |-> fetch_sub(c.m_counter, weak_one),
          m_destructed |-> c.m_destructed,
          m_deallocated |-> c.m_deallocated \/ weak_dec_branch(c.m_counter) = "wd_deallocate"]

policy_decrement_none(c) == c
\* variant: the counter operation applied is the decrement
policy_increment_as_decrement(c) ==
    IF policy = "shared" THEN control_shared_dec(c) ELSE control_weak_dec(c)
policy_increment(c) == IF policy = "shared" THEN control_shared_inc(c) ELSE control_weak_inc(c)
policy_decrement(c) == IF policy = "shared" THEN control_shared_dec(c) ELSE control_weak_dec(c)

\* a control pointer that carries meta data bits is not the address of a
\* control block: the counter operation called with it accesses memory that
\* is no counter (recorded; the block the address lies in is counted)
NotDereferenceable(what, ctrl) ==
    IF ctrl # BlockOf(ctrl) THEN {<<what, "pointer with meta data bits", ctrl>>} ELSE {}

\* std::memory_order of the unlock_store that ends load(): release on the
\* double word atomic, seq_cst on the single word atomic
acv_load_unlock_order == "release"
acc_load_unlock_order == "seq_cst"
load_unlock_order_relaxed == "relaxed"
load_unlock_order == IF wide THEN acv_load_unlock_order ELSE acc_load_unlock_order

\* m_ctrl.store(ctrl, order): a release or seq_cst store takes effect after
\* every write the thread made before it; a relaxed store may take effect
\* before them
store_orders_prior_writes(order) == order \in {"release", "seq_cst"}

\* Policy::increment(ctrl): nothing for nullptr
Increment(ctrl) ==
    IF ctrl = nullptr
    THEN UNCHANGED <<ctl, failed, freedAccess>>
    ELSE LET b == BlockOf(ctrl) IN
         /\ ctl' = IF b \in Blocks THEN [ctl EXCEPT ![b] = policy_increment(@)] ELSE ctl
         /\ freedAccess' = IF b \in Blocks /\ ctl[b].m_deallocated
                           THEN freedAccess \cup {<<"increment", b>>} ELSE freedAccess
         /\ failed' = failed \cup NotDereferenceable("increment", ctrl)

\* Policy::decrement(ctrl): nothing for nullptr
Decrement(ctrl) ==
    IF ctrl = nullptr
    THEN UNCHANGED <<ctl, failed, freedAccess>>
    ELSE LET b == BlockOf(ctrl) IN
         /\ ctl' = IF b \in Blocks THEN [ctl EXCEPT ![b] = policy_decrement(@)] ELSE ctl
         /\ freedAccess' = IF b \in Blocks /\ ctl[b].m_deallocated
                           THEN freedAccess \cup {<<"decrement", b>>} ELSE freedAccess
         /\ failed' = failed \cup NotDereferenceable("decrement", ctrl)

NoCount == UNCHANGED <<ctl, failed, freedAccess>>

Idle(t) == pc[t] = "idle"
Begin(t) == /\ constructed
            /\ pc[t] = "idle"
            /\ ops[t] < MaxOps
            /\ ops' = [ops EXCEPT ![t] = @ + 1]
Goto(t, label) == pc' = [pc EXCEPT ![t] = label]

\* bookkeeping of mutations and notifications (no effect on the program)
Mutated == notified' = IF notified = "each" THEN "pending" ELSE "missed"
Notified == notified' = IF notified = "missed" THEN "missed" ELSE "each"
ClearLocals(t) ==
    /\ ctrl_meta' = [ctrl_meta EXCEPT ![t] = 0]
    /\ value' = [value EXCEPT ![t] = 0]
    /\ toggle_notify' = [toggle_notify EXCEPT ![t] = FALSE]

(***************************************************************************)
(* The users' own pointers: copy, alias, destroy.                          *)
(***************************************************************************)
\* desired = expected (copy constructor)
pointer_copy(t) ==
    /\ UNCHANGED counterVars
    /\ Idle(t)
    /\ expected[t] # NullPair /\ desired[t] = NullPair
    /\ to_control_count(ctl[BlockOf(expected[t][1])].m_counter) < MaxRefs
    /\ desired' = [desired EXCEPT ![t] = expected[t]]
    /\ Increment(expected[t][1])
    /\ UNCHANGED <<constructed, wide, policy, m_ctrl, m_value, ctrl_meta, value, toggle_notify,
                   expected, installed, notified, ops, pc>>

\* desired = wide pointer(expected, ptr) (aliasing constructor)
pointer_alias(t) ==
    /\ UNCHANGED counterVars
    /\ Idle(t)
    /\ wide
    /\ expected[t] # NullPair /\ desired[t] = NullPair
    /\ to_control_count(ctl[BlockOf(expected[t][1])].m_counter) < MaxRefs
    /\ \E v \in ValuePtrs \ {expected[t][2]} :
          desired' = [desired EXCEPT ![t] = <<expected[t][1], v>>]
    /\ Increment(expected[t][1])
    /\ UNCHANGED <<constructed, wide, policy, m_ctrl, m_value, ctrl_meta, value, toggle_notify,
                   expected, installed, notified, ops, pc>>

\* ~expected (destructor or reset)
pointer_destroy(t) ==
    /\ UNCHANGED counterVars
    /\ Idle(t)
    /\ expected[t] # NullPair
    /\ expected' = [expected EXCEPT ![t] = NullPair]
    /\ Decrement(expected[t][1])
    /\ UNCHANGED <<constructed, wide, policy, m_ctrl, m_value, ctrl_meta, value, toggle_notify,
                   desired, installed, notified, ops, pc>>

(***************************************************************************)
(* atomic_control_and_value (double word).                                 *)
(***************************************************************************)
\* variant: the loaded word is used as the expected word as it is
acv_expected_unlocked_as_loaded(w) == w
\* expected with bit_locked unset (lock_load_expected: ctrl_meta)
acv_expected_unlocked(w) == clear_bit(w, bit_locked)

\* variant: the notify bit is kept in the pointer
acv_sans_meta_keep_notify(w) == clear_bit(w, bit_locked)
\* the control pointer of a word without meta data bits
acv_sans_meta(w) == clear_bit(clear_bit(w, bit_locked), bit_notify)

\* variant: bit_notify is never toggled
acv_toggle_notify_never(ctrl, desired_ctrl, val, desired_value) == FALSE
\* store / exchange / compare_exchange: same control, different value?
acv_toggle_notify(ctrl, desired_ctrl, val, desired_value) ==
    ctrl = desired_ctrl /\ val # desired_value

\* variant: the unlock_store of a mutation leaves bit_locked set
acv_unlock_word_still_locked(toggle, meta, desired_ctrl) == set_bit(desired_ctrl, bit_locked)

\* variant: the unlock_store of a mutation keeps the previous control pointer
acv_unlock_word_previous(toggle, meta, desired_ctrl) ==
    IF toggle THEN toggle_bit(meta, bit_notify) ELSE meta
\* the word stored by the unlock_store of a mutation
acv_unlock_word(toggle, meta, desired_ctrl) ==
    IF toggle THEN toggle_bit(meta, bit_notify) ELSE desired_ctrl

\* lock_load: the initial m_ctrl.load of store, load, exchange and wait
acv_lock_load(t, label) ==
    /\ wide
    /\ ctrl_meta' = [ctrl_meta EXCEPT ![t] = acv_expected_unlocked(m_ctrl)]
    /\ Goto(t, label)

\* lock_load_expected: one compare_exchange_weak of the locking loop (a
\* spurious failure reloads the same word and changes nothing)
acv_lock_load_expected(t) ==
    /\ UNCHANGED counterVars
    /\ wide
    /\ pc[t] \in {"store_lock", "load_lock", "exchange_lock", "cas_lock", "wait_lock"}
    /\ IF m_ctrl = ctrl_meta[t]
       THEN /\ m_ctrl' = set_bit(ctrl_meta[t], bit_locked)
            /\ Goto(t, CASE pc[t] = "store_lock" -> "store_body"
                         [] pc[t] = "load_lock" -> "load_body"
                         [] pc[t] = "exchange_lock" -> "exchange_body"
                         [] pc[t] = "cas_lock" -> "cas_body"
                         [] pc[t] = "wait_lock" -> "wait_body")
            /\ UNCHANGED ctrl_meta
       ELSE /\ ctrl_meta' = [ctrl_meta EXCEPT ![t] = acv_expected_unlocked(m_ctrl)]
            /\ UNCHANGED <<m_ctrl, pc>>
    /\ NoCount
    /\ UNCHANGED <<constructed, wide, policy, m_value, value, toggle_notify, expected, desired,
                   installed, notified, ops>>

\* store(desired_ctrl_with_one_inc, desired_value)
acv_store_begin(t) ==
    /\ UNCHANGED counterVars
    /\ Begin(t)
    /\ acv_lock_load(t, "store_lock")
    /\ NoCount
    /\ UNCHANGED <<constructed, wide, policy, m_ctrl, m_value, value, toggle_notify, expected,
                   desired, installed, notified>>

acv_store_body(t) ==
    /\ UNCHANGED counterVars
    /\ wide /\ pc[t] = "store_body"
    /\ toggle_notify' = [toggle_notify EXCEPT ![t] =
          acv_toggle_notify(acv_sans_meta(ctrl_meta[t]), desired[t][1], m_value, desired[t][2])]
    /\ m_value' = desired[t][2]
    /\ Goto(t, "store_unlock")
    /\ NoCount
    /\ UNCHANGED <<constructed, wide, policy, m_ctrl, ctrl_meta, value, expected, desired,
                   installed, notified, ops>>

acv_store_unlock(t) ==
    /\ UNCHANGED counterVars
    /\ wide /\ pc[t] = "store_unlock"
    /\ m_ctrl' = acv_unlock_word(toggle_notify[t], ctrl_meta[t], desired[t][1])
    /\ installed' = installed \cup {desired[t]}
    /\ Mutated
    /\ desired' = [desired EXCEPT ![t] = NullPair]
    /\ Goto(t, "store_decrement")
    /\ NoCount
    /\ UNCHANGED <<constructed, wide, policy, m_value, ctrl_meta, value, toggle_notify, expected, ops>>

acv_store_decrement(t) ==
    /\ UNCHANGED counterVars
    /\ wide /\ pc[t] = "store_decrement"
    /\ Decrement(acv_sans_meta(ctrl_meta[t]))
    /\ ClearLocals(t)
    /\ Goto(t, "idle")
    /\ UNCHANGED <<constructed, wide, policy, m_ctrl, m_value, expected, desired, installed,
                   notified, ops>>

\* load()
acv_load_begin(t) ==
    /\ UNCHANGED counterVars
    /\ Begin(t)
    /\ expected[t] = NullPair
    /\ acv_lock_load(t, "load_lock")
    /\ NoCount
    /\ UNCHANGED <<constructed, wide, policy, m_ctrl, m_value, value, toggle_notify, expected,
                   desired, installed, notified>>

\* Policy::increment under the lock, and the copy of m_value.  Where the
\* unlock store took effect first (an order that does not keep the earlier
\* writes before it), the increment takes effect here, after the unlock.
acv_load_body(t) ==
    /\ UNCHANGED counterVars
    /\ wide /\ pc[t] \in {"load_body", "load_increment"}
    /\ Increment(acv_sans_meta(ctrl_meta[t]))
    /\ IF pc[t] = "load_body"
       THEN /\ value' = [value EXCEPT ![t] = m_value]
            /\ Goto(t, "load_unlock")
            /\ UNCHANGED <<ctrl_meta, toggle_notify, expected>>
       ELSE /\ expected' = [expected EXCEPT ![t] = <<acv_sans_meta(ctrl_meta[t]), value[t]>>]
            /\ ClearLocals(t)
            /\ Goto(t, "idle")
    /\ UNCHANGED <<constructed, wide, policy, m_ctrl, m_value, desired, installed, notified, ops>>

\* unlock_store(ctrl_meta, load_unlock_order)
acv_load_unlock(t) ==
    /\ UNCHANGED counterVars
    /\ wide
    /\ \/ pc[t] = "load_unlock"
       \/ pc[t] = "load_body" /\ ~store_orders_prior_writes(load_unlock_order)
    /\ m_ctrl' = ctrl_meta[t]
    /\ IF pc[t] = "load_unlock"
       THEN /\ expected' = [expected EXCEPT ![t] = <<acv_sans_meta(ctrl_meta[t]), value[t]>>]
            /\ ClearLocals(t)
            /\ Goto(t, "idle")
       ELSE /\ value' = [value EXCEPT ![t] = m_value]
            /\ Goto(t, "load_increment")
            /\ UNCHANGED <<ctrl_meta, toggle_notify, expected>>
    /\ NoCount
    /\ UNCHANGED <<constructed, wide, policy, m_value, desired, installed, notified, ops>>

\* exchange(desired_ctrl_with_one_inc, desired_value)
acv_exchange_begin(t) ==
    /\ UNCHANGED counterVars
    /\ Begin(t)
    /\ expected[t] = NullPair
    /\ acv_lock_load(t, "exchange_lock")
    /\ NoCount
    /\ UNCHANGED <<constructed, wide, policy, m_ctrl, m_value, value, toggle_notify, expected,
                   desired, installed, notified>>

acv_exchange_body(t) ==
    /\ UNCHANGED counterVars
    /\ wide /\ pc[t] = "exchange_body"
    /\ toggle_notify' = [toggle_notify EXCEPT ![t] =
          acv_toggle_notify(acv_sans_meta(ctrl_meta[t]), desired[t][1], m_value, desired[t][2])]
    /\ value' = [value EXCEPT ![t] = m_value]
    /\ m_value' = desired[t][2]
    /\ Goto(t, "exchange_unlock")
    /\ NoCount
    /\ UNCHANGED <<constructed, wide, policy, m_ctrl, ctrl_meta, expected, desired, installed,
                   notified, ops>>

acv_exchange_unlock(t) ==
    /\ UNCHANGED counterVars
    /\ wide /\ pc[t] = "exchange_unlock"
    /\ m_ctrl' = acv_unlock_word(toggle_notify[t], ctrl_meta[t], desired[t][1])
    /\ installed' = installed \cup {desired[t]}
    /\ Mutated
    /\ expected' = [expected EXCEPT ![t] = <<acv_sans_meta(ctrl_meta[t]), value[t]>>]
    /\ desired' = [desired EXCEPT ![t] = NullPair]
    /\ ClearLocals(t)
    /\ Goto(t, "idle")
    /\ NoCount
    /\ UNCHANGED <<constructed, wide, policy, m_value, ops>>

\* variant: only the control pointers are compared
acv_as_expected_ctrl_only(ctrl, val, exp) == ctrl = exp[1]
\* variant: the comparison never holds
acv_as_expected_never(ctrl, val, exp) == FALSE
\* compare_exchange_strong(expected, desired): lock_load_expected starts from
\* the caller's expected control pointer
acv_as_expected(ctrl, val, exp) == ctrl = exp[1] /\ val = exp[2]

acv_cas_begin(t) ==
    /\ UNCHANGED counterVars
    /\ Begin(t)
    /\ wide
    /\ ctrl_meta' = [ctrl_meta EXCEPT ![t] = acv_expected_unlocked(expected[t][1])]
    /\ Goto(t, "cas_lock")
    /\ NoCount
    /\ UNCHANGED <<constructed, wide, policy, m_ctrl, m_value, value, toggle_notify, expected,
                   desired, installed, notified>>

acv_cas_body(t) ==
    /\ UNCHANGED counterVars
    /\ wide /\ pc[t] = "cas_body"
    /\ LET ctrl == acv_sans_meta(ctrl_meta[t]) IN
       IF acv_as_expected(ctrl, m_value, expected[t])
       THEN /\ toggle_notify' = [toggle_notify EXCEPT ![t] =
                  acv_toggle_notify(ctrl, desired[t][1], m_value, desired[t][2])]
            /\ m_value' = desired[t][2]
            /\ Goto(t, "cas_unlock_success")
            /\ NoCount
            /\ UNCHANGED value
       ELSE /\ value' = [value EXCEPT ![t] = m_value]
            /\ Increment(ctrl)
            /\ Goto(t, "cas_unlock_failure")
            /\ UNCHANGED <<m_value, toggle_notify>>
    /\ UNCHANGED <<constructed, wide, policy, m_ctrl, ctrl_meta, expected, desired, installed,
                   notified, ops>>

acv_cas_unlock_success(t) ==
    /\ UNCHANGED counterVars
    /\ wide /\ pc[t] = "cas_unlock_success"
    /\ m_ctrl' = acv_unlock_word(toggle_notify[t], ctrl_meta[t], desired[t][1])
    /\ installed' = installed \cup {desired[t]}
    /\ Mutated
    /\ desired' = [desired EXCEPT ![t] = NullPair]
    /\ Goto(t, "cas_decrement_previous")
    /\ NoCount
    /\ UNCHANGED <<constructed, wide, policy, m_value, ctrl_meta, value, toggle_notify, expected, ops>>

acv_cas_decrement_previous(t) ==
    /\ UNCHANGED counterVars
    /\ wide /\ pc[t] = "cas_decrement_previous"
    /\ Decrement(acv_sans_meta(ctrl_meta[t]))
    /\ ClearLocals(t)
    /\ Goto(t, "idle")
    /\ UNCHANGED <<constructed, wide, policy, m_ctrl, m_value, expected, desired, installed,
                   notified, ops>>

acv_cas_unlock_failure(t) ==
    /\ UNCHANGED counterVars
    /\ wide /\ pc[t] = "cas_unlock_failure"
    /\ m_ctrl' = ctrl_meta[t]
    /\ Goto(t, "cas_decrement_expected")
    /\ NoCount
    /\ UNCHANGED <<constructed, wide, policy, m_value, ctrl_meta, value, toggle_notify, expected,
                   desired, installed, notified, ops>>

acv_cas_decrement_expected(t) ==
    /\ UNCHANGED counterVars
    /\ wide /\ pc[t] = "cas_decrement_expected"
    /\ Decrement(expected[t][1])
    /\ expected' = [expected EXCEPT ![t] = <<acv_sans_meta(ctrl_meta[t]), value[t]>>]
    /\ Goto(t, "cas_decrement_desired")
    /\ UNCHANGED <<constructed, wide, policy, m_ctrl, m_value, ctrl_meta, value, toggle_notify,
                   desired, installed, notified, ops>>

acv_cas_decrement_desired(t) ==
    /\ UNCHANGED counterVars
    /\ wide /\ pc[t] = "cas_decrement_desired"
    /\ Decrement(desired[t][1])
    /\ desired' = [desired EXCEPT ![t] = NullPair]
    /\ ClearLocals(t)
    /\ Goto(t, "idle")
    /\ UNCHANGED <<constructed, wide, policy, m_ctrl, m_value, expected, installed, notified, ops>>

\* wait(old_ctrl, old_value) with old = the caller's expected pointer
acv_wait_begin(t) ==
    /\ UNCHANGED counterVars
    /\ Begin(t)
    /\ acv_lock_load(t, "wait_lock")
    /\ NoCount
    /\ UNCHANGED <<constructed, wide, policy, m_ctrl, m_value, value, toggle_notify, expected,
                   desired, installed, notified>>

acv_wait_body(t) ==
    /\ UNCHANGED counterVars
    /\ wide /\ pc[t] = "wait_body"
    /\ value' = [value EXCEPT ![t] = m_value]
    /\ Goto(t, "wait_unlock")
    /\ NoCount
    /\ UNCHANGED <<constructed, wide, policy, m_ctrl, m_value, ctrl_meta, toggle_notify, expected,
                   desired, installed, notified, ops>>

\* variant: only the control pointers are compared
acv_wait_differs_ctrl_only(ctrl, val, old) == ctrl # old[1]
\* variant: both pointers must differ
acv_wait_differs_both(ctrl, val, old) == ctrl # old[1] /\ val # old[2]
\* variant: every pass of the loop ends it
acv_wait_differs_always(ctrl, val, old) == TRUE
\* the comparison that ends the loop of wait
acv_wait_differs(ctrl, val, old) == ctrl # old[1] \/ val # old[2]

acv_wait_unlock(t) ==
    /\ UNCHANGED counterVars
    /\ wide /\ pc[t] = "wait_unlock"
    /\ m_ctrl' = ctrl_meta[t]
    /\ IF acv_wait_differs(acv_sans_meta(ctrl_meta[t]), value[t], expected[t])
       THEN /\ ClearLocals(t)
            /\ Goto(t, "idle")
       ELSE /\ value' = [value EXCEPT ![t] = 0]
            /\ Goto(t, "wait_atomic")
            /\ UNCHANGED <<ctrl_meta, toggle_notify>>
    /\ NoCount
    /\ UNCHANGED <<constructed, wide, policy, m_value, expected, desired, installed, notified, ops>>

\* m_ctrl.wait(ctrl_meta): std::atomic::wait returns when the word differs
\* from its argument and blocks until notified otherwise
acv_wait_atomic(t) ==
    /\ UNCHANGED counterVars
    /\ wide /\ pc[t] = "wait_atomic"
    /\ Goto(t, IF m_ctrl # ctrl_meta[t] THEN "wait_again" ELSE "wait_blocked")
    /\ NoCount
    /\ UNCHANGED <<constructed, wide, policy, m_ctrl, m_value, ctrl_meta, value, toggle_notify,
                   expected, desired, installed, notified, ops>>

\* the next iteration of the loop of wait
acv_wait_again(t) ==
    /\ UNCHANGED counterVars
    /\ pc[t] = "wait_again"
    /\ acv_lock_load(t, "wait_lock")
    /\ NoCount
    /\ UNCHANGED <<constructed, wide, policy, m_ctrl, m_value, value, toggle_notify, expected,
                   desired, installed, notified, ops>>

(***************************************************************************)
(* std::atomic notify_one / notify_all and spurious wake-ups, for both     *)
(* atomics: a blocked waiter evaluates its comparison again.               *)
(***************************************************************************)
Blocked == {w \in DOMAIN pc : pc[w] = "wait_blocked"}

notify_one(t) ==
    /\ UNCHANGED counterVars
    /\ Idle(t)
    /\ IF Blocked = {}
       THEN UNCHANGED pc
       ELSE \E w \in Blocked : Goto(w, "wait_atomic")
    /\ IF Cardinality(Blocked) <= 1 THEN Notified ELSE UNCHANGED notified
    /\ NoCount
    /\ UNCHANGED <<constructed, wide, policy, m_ctrl, m_value, ctrl_meta, value, toggle_notify,
                   expected, desired, installed, ops>>

notify_all(t) ==
    /\ UNCHANGED counterVars
    /\ Idle(t)
    /\ pc' = [w \in DOMAIN pc |-> IF w \in Blocked THEN "wait_atomic" ELSE pc[w]]
    /\ Notified
    /\ NoCount
    /\ UNCHANGED <<constructed, wide, policy, m_ctrl, m_value, ctrl_meta, value, toggle_notify,
                   expected, desired, installed, ops>>

spurious_wakeup(t) ==
    /\ UNCHANGED counterVars
    /\ pc[t] = "wait_blocked"
    /\ Goto(t, "wait_atomic")
    /\ NoCount
    /\ UNCHANGED <<constructed, wide, policy, m_ctrl, m_value, ctrl_meta, value, toggle_notify,
                   expected, desired, installed, notified, ops>>

(***************************************************************************)
(* atomic_convertible_control (single word).                               *)
(***************************************************************************)
\* expected with bit_locked unset (lock_load_expected: ctrl_meta)
acc_expected_unlocked(w) == clear_bit(w, bit_locked)

\* variant: lock_exchange expects the loaded word as it is
acc_exchange_expected_as_loaded(w) == w
\* expected with bit_locked unset (lock_exchange: ctrl_meta)
acc_exchange_expected(w) == clear_bit(w, bit_locked)

\* lock_load: the initial m_ctrl.load of store and load
acc_lock_load(t, label) ==
    /\ ~wide
    /\ ctrl_meta' = [ctrl_meta EXCEPT ![t] = acc_expected_unlocked(m_ctrl)]
    /\ Goto(t, label)

\* lock_load_expected: one compare_exchange_weak of the locking loop
acc_lock_load_expected(t) ==
    /\ UNCHANGED counterVars
    /\ ~wide
    /\ pc[t] \in {"store_lock", "load_lock", "cas_lock"}
    /\ IF m_ctrl = ctrl_meta[t]
       THEN /\ m_ctrl' = set_bit(ctrl_meta[t], bit_locked)
            /\ Goto(t, CASE pc[t] = "store_lock" -> "store_unlock"
                         [] pc[t] = "load_lock" -> "load_body"
                         [] pc[t] = "cas_lock" -> "cas_body")
            /\ UNCHANGED ctrl_meta
       ELSE /\ ctrl_meta' = [ctrl_meta EXCEPT ![t] = acc_expected_unlocked(m_ctrl)]
            /\ UNCHANGED <<m_ctrl, pc>>
    /\ NoCount
    /\ UNCHANGED <<constructed, wide, policy, m_value, value, toggle_notify, expected, desired,
                   installed, notified, ops>>

\* store(desired_with_one_inc)
acc_store_begin(t) ==
    /\ UNCHANGED counterVars
    /\ Begin(t)
    /\ acc_lock_load(t, "store_lock")
    /\ NoCount
    /\ UNCHANGED <<constructed, wide, policy, m_ctrl, m_value, value, toggle_notify, expected,
                   desired, installed, notified>>

acc_store_unlock(t) ==
    /\ UNCHANGED counterVars
    /\ ~wide /\ pc[t] = "store_unlock"
    /\ m_ctrl' = desired[t][1]
    /\ installed' = installed \cup {desired[t]}
    /\ Mutated
    /\ desired' = [desired EXCEPT ![t] = NullPair]
    /\ Goto(t, "store_decrement")
    /\ NoCount
    /\ UNCHANGED <<constructed, wide, policy, m_value, ctrl_meta, value, toggle_notify, expected, ops>>

acc_store_decrement(t) ==
    /\ UNCHANGED counterVars
    /\ ~wide /\ pc[t] = "store_decrement"
    /\ Decrement(ctrl_meta[t])
    /\ ClearLocals(t)
    /\ Goto(t, "idle")
    /\ UNCHANGED <<constructed, wide, policy, m_ctrl, m_value, expected, desired, installed,
                   notified, ops>>

\* load()
acc_load_begin(t) ==
    /\ UNCHANGED counterVars
    /\ Begin(t)
    /\ expected[t] = NullPair
    /\ acc_lock_load(t, "load_lock")
    /\ NoCount
    /\ UNCHANGED <<constructed, wide, policy, m_ctrl, m_value, value, toggle_notify, expected,
                   desired, installed, notified>>

\* Policy::increment under the lock (after the unlock where the unlock store
\* took effect first)
acc_load_body(t) ==
    /\ UNCHANGED counterVars
    /\ ~wide /\ pc[t] \in {"load_body", "load_increment"}
    /\ Increment(ctrl_meta[t])
    /\ IF pc[t] = "load_body"
       THEN /\ Goto(t, "load_unlock")
            /\ UNCHANGED <<ctrl_meta, value, toggle_notify, expected>>
       ELSE /\ expected' = [expected EXCEPT ![t] = <<ctrl_meta[t], nullptr>>]
            /\ ClearLocals(t)
            /\ Goto(t, "idle")
    /\ UNCHANGED <<constructed, wide, policy, m_ctrl, m_value, desired, installed, notified, ops>>

\* unlock_store(ctrl_with_one_inc, load_unlock_order)
acc_load_unlock(t) ==
    /\ UNCHANGED counterVars
    /\ ~wide
    /\ \/ pc[t] = "load_unlock"
       \/ pc[t] = "load_body" /\ ~store_orders_prior_writes(load_unlock_order)
    /\ m_ctrl' = ctrl_meta[t]
    /\ IF pc[t] = "load_unlock"
       THEN /\ expected' = [expected EXCEPT ![t] = <<ctrl_meta[t], nullptr>>]
            /\ ClearLocals(t)
            /\ Goto(t, "idle")
       ELSE /\ Goto(t, "load_increment")
            /\ UNCHANGED <<ctrl_meta, value, toggle_notify, expected>>
    /\ NoCount
    /\ UNCHANGED <<constructed, wide, policy, m_value, desired, installed, notified, ops>>

\* exchange(desired_with_one_inc): lock_exchange, the initial m_ctrl.load
acc_exchange_begin(t) ==
    /\ UNCHANGED counterVars
    /\ Begin(t)
    /\ ~wide
    /\ expected[t] = NullPair
    /\ ctrl_meta' = [ctrl_meta EXCEPT ![t] = acc_exchange_expected(m_ctrl)]
    /\ Goto(t, "exchange_cas")
    /\ NoCount
    /\ UNCHANGED <<constructed, wide, policy, m_ctrl, m_value, value, toggle_notify, expected,
                   desired, installed, notified>>

\* lock_exchange: one compare_exchange_weak of its loop
acc_lock_exchange(t) ==
    /\ UNCHANGED counterVars
    /\ ~wide /\ pc[t] = "exchange_cas"
    /\ IF m_ctrl = ctrl_meta[t]
       THEN /\ m_ctrl' = desired[t][1]
            /\ installed' = installed \cup {desired[t]}
            /\ Mutated
            /\ expected' = [expected EXCEPT ![t] = <<ctrl_meta[t], nullptr>>]
            /\ desired' = [desired EXCEPT ![t] = NullPair]
            /\ ClearLocals(t)
            /\ Goto(t, "idle")
       ELSE /\ ctrl_meta' = [ctrl_meta EXCEPT ![t] = acc_exchange_expected(m_ctrl)]
            /\ UNCHANGED <<m_ctrl, installed, notified, expected, desired, value,
                           toggle_notify, pc>>
    /\ NoCount
    /\ UNCHANGED <<constructed, wide, policy, m_value, ops>>

\* compare_exchange_strong(expected_with_one_inc, desired_with_one_inc)
acc_cas_begin(t) ==
    /\ UNCHANGED counterVars
    /\ Begin(t)
    /\ ~wide
    /\ ctrl_meta' = [ctrl_meta EXCEPT ![t] = acc_expected_unlocked(expected[t][1])]
    /\ Goto(t, "cas_lock")
    /\ NoCount
    /\ UNCHANGED <<constructed, wide, policy, m_ctrl, m_value, value, toggle_notify, expected,
                   desired, installed, notified>>

acc_as_expected(ctrl, exp) == ctrl = exp[1]

acc_cas_body(t) ==
    /\ UNCHANGED counterVars
    /\ ~wide /\ pc[t] = "cas_body"
    /\ IF acc_as_expected(ctrl_meta[t], expected[t])
       THEN /\ Goto(t, "cas_unlock_success")
            /\ NoCount
       ELSE /\ Increment(ctrl_meta[t])
            /\ Goto(t, "cas_unlock_failure")
    /\ UNCHANGED <<constructed, wide, policy, m_ctrl, m_value, ctrl_meta, value, toggle_notify,
                   expected, desired, installed, notified, ops>>

acc_cas_unlock_success(t) ==
    /\ UNCHANGED counterVars
    /\ ~wide /\ pc[t] = "cas_unlock_success"
    /\ m_ctrl' = desired[t][1]
    /\ installed' = installed \cup {desired[t]}
    /\ Mutated
    /\ desired' = [desired EXCEPT ![t] = NullPair]
    /\ Goto(t, "cas_decrement_previous")
    /\ NoCount
    /\ UNCHANGED <<constructed, wide, policy, m_value, ctrl_meta, value, toggle_notify, expected, ops>>

acc_cas_decrement_previous(t) ==
    /\ UNCHANGED counterVars
    /\ ~wide /\ pc[t] = "cas_decrement_previous"
    /\ Decrement(ctrl_meta[t])
    /\ ClearLocals(t)
    /\ Goto(t, "idle")
    /\ UNCHANGED <<constructed, wide, policy, m_ctrl, m_value, expected, desired, installed,
                   notified, ops>>

acc_cas_unlock_failure(t) ==
    /\ UNCHANGED counterVars
    /\ ~wide /\ pc[t] = "cas_unlock_failure"
    /\ m_ctrl' = ctrl_meta[t]
    /\ Goto(t, "cas_decrement_expected")
    /\ NoCount
    /\ UNCHANGED <<constructed, wide, policy, m_value, ctrl_meta, value, toggle_notify, expected,
                   desired, installed, notified, ops>>

acc_cas_decrement_expected(t) ==
    /\ UNCHANGED counterVars
    /\ ~wide /\ pc[t] = "cas_decrement_expected"
    /\ Decrement(expected[t][1])
    /\ expected' = [expected EXCEPT ![t] = <<ctrl_meta[t], nullptr>>]
    /\ Goto(t, "cas_decrement_desired")
    /\ UNCHANGED <<constructed, wide, policy, m_ctrl, m_value, ctrl_meta, value, toggle_notify,
                   desired, installed, notified, ops>>

acc_cas_decrement_desired(t) ==
    /\ UNCHANGED counterVars
    /\ ~wide /\ pc[t] = "cas_decrement_desired"
    /\ Decrement(desired[t][1])
    /\ desired' = [desired EXCEPT ![t] = NullPair]
    /\ ClearLocals(t)
    /\ Goto(t, "idle")
    /\ UNCHANGED <<constructed, wide, policy, m_ctrl, m_value, expected, installed, notified, ops>>

\* wait(old): m_ctrl.wait(old) with old = the caller's expected pointer
acc_wait_begin(t) ==
    /\ UNCHANGED counterVars
    /\ Begin(t)
    /\ ~wide
    /\ Goto(t, "wait_atomic")
    /\ NoCount
    /\ UNCHANGED <<constructed, wide, policy, m_ctrl, m_value, ctrl_meta, value, toggle_notify,
                   expected, desired, installed, notified>>

acc_wait_atomic(t) ==
    /\ UNCHANGED counterVars
    /\ ~wide /\ pc[t] = "wait_atomic"
    /\ Goto(t, IF m_ctrl # expected[t][1] THEN "idle" ELSE "wait_blocked")
    /\ NoCount
    /\ UNCHANGED <<constructed, wide, policy, m_ctrl, m_value, ctrl_meta, value, toggle_notify,
                   expected, desired, installed, notified, ops>>

(***************************************************************************)
(* The destructors: one decrement of the pointer the atomic holds.  The    *)
(* object is destroyed by one thread when no call on it is under way.      *)
(***************************************************************************)
\* variant: nothing is released
acv_destructor_ctrl_none(w) == nullptr
\* variant: the word is passed to Policy::decrement as it is
acv_destructor_ctrl_as_loaded(w) == w
\* ~atomic_control_and_value: ctrl_sans_notify
acv_destructor_ctrl(w) == clear_bit(w, bit_notify)

acv_destructor(t) ==
    /\ UNCHANGED counterVars
    /\ wide /\ constructed
    /\ \A u \in DOMAIN pc : Idle(u)
    /\ constructed' = FALSE
    /\ Decrement(acv_destructor_ctrl(m_ctrl))
    /\ UNCHANGED <<wide, policy, m_ctrl, m_value, ctrl_meta, value, toggle_notify,
                   expected, desired, installed, notified, ops, pc>>

\* ~atomic_convertible_control
acc_destructor(t) ==
    /\ UNCHANGED counterVars
    /\ ~wide /\ constructed
    /\ \A u \in DOMAIN pc : Idle(u)
    /\ constructed' = FALSE
    /\ Decrement(m_ctrl)
    /\ UNCHANGED <<wide, policy, m_ctrl, m_value, ctrl_meta, value, toggle_notify,
                   expected, desired, installed, notified, ops, pc>>

Critical == {"store_body", "store_unlock", "load_body", "load_unlock",
             "exchange_body", "exchange_unlock", "cas_body", "cas_unlock_success",
             "cas_unlock_failure", "wait_body", "wait_unlock"}

NextAtomic ==
    \E t \in Users :
        \/ pointer_copy(t)
        \/ pointer_alias(t)
        \/ pointer_destroy(t)
        \/ acv_lock_load_expected(t)
        \/ acv_store_begin(t)
        \/ acv_store_body(t)
        \/ acv_store_unlock(t)
        \/ acv_store_decrement(t)
        \/ acv_load_begin(t)
        \/ acv_load_body(t)
        \/ acv_load_unlock(t)
        \/ acv_exchange_begin(t)
        \/ acv_exchange_body(t)
        \/ acv_exchange_unlock(t)
        \/ acv_cas_begin(t)
        \/ acv_cas_body(t)
        \/ acv_cas_unlock_success(t)
        \/ acv_cas_decrement_previous(t)
        \/ acv_cas_unlock_failure(t)
        \/ acv_cas_decrement_expected(t)
        \/ acv_cas_decrement_desired(t)
        \/ acv_wait_begin(t)
        \/ acv_wait_body(t)
        \/ acv_wait_unlock(t)
        \/ acv_wait_atomic(t)
        \/ acv_wait_again(t)
        \/ notify_one(t)
        \/ notify_all(t)
        \/ spurious_wakeup(t)
        \/ acc_lock_load_expected(t)
        \/ acc_store_begin(t)
        \/ acc_store_unlock(t)
        \/ acc_store_decrement(t)
        \/ acc_load_begin(t)
        \/ acc_load_body(t)
        \/ acc_load_unlock(t)
        \/ acc_exchange_begin(t)
        \/ acc_lock_exchange(t)
        \/ acc_cas_begin(t)
        \/ acc_cas_body(t)
        \/ acc_cas_unlock_success(t)
        \/ acc_cas_decrement_previous(t)
        \/ acc_cas_unlock_failure(t)
        \/ acc_cas_decrement_expected(t)
        \/ acc_cas_decrement_desired(t)
        \/ acc_wait_begin(t)
        \/ acc_wait_atomic(t)

SpecAtomic == InitAtomic /\ [][NextAtomic]_vars

(***************************************************************************)
(* Properties of the atomic objects.                                       *)
(***************************************************************************)
\* the pointer the atomic holds, without the bits of the lock word
Stored == <<acv_sans_meta(m_ctrl), m_value>>

LockLabels == {"store_lock", "load_lock", "exchange_lock", "cas_lock", "wait_lock"}

InCritical == {t \in Users : pc[t] \in Critical}

\* C7: on both atomics at most one thread at a time is between a successful
\* locking compare-exchange of lock_load_expected and its unlock_store, and
\* the lock word carries bit_locked for as long as a thread is there.
MutualExclusion ==
    /\ Cardinality(InCritical) <= 1
    /\ InCritical # {} => has_bit(m_ctrl, bit_locked)

\* one thread holds the lock while another one spins in lock_load_expected
\* on the locked word
MutualExclusionWitness ==
    \E t \in Users, u \in Users :
        /\ t # u
        /\ pc[t] \in Critical
        /\ pc[u] \in LockLabels
        /\ ctrl_meta[u] # m_ctrl

\* C8: on the double word atomic no waiter stays blocked in m_ctrl.wait once
\* every mutation was followed by a notify that reached every blocked waiter
\* and the stored pair differs from the waiter's old pair (from that state
\* on only a further notify makes the waiter look at the pair again, and the
\* word still equals the waiter's key).
NoLostWakeup ==
    \A w \in Users :
        ~ /\ wide
          /\ pc[w] = "wait_blocked"
          /\ notified = "each"
          /\ m_ctrl = ctrl_meta[w]
          /\ Stored # expected[w]

\* C9: every pair a thread got from load, exchange or a failed
\* compare_exchange of the double word atomic was installed as a pair by
\* the constructor, a store, an exchange or a successful compare_exchange.
PairsInstalledTogether ==
    wide => \A t \in Users : expected[t] = NullPair \/ expected[t] \in installed

\* a thread got a pair from the atomic after the atomic had held three
\* different pairs
PairsInstalledWitness ==
    /\ wide
    /\ Cardinality(installed) >= 3
    /\ \E t \in Users : /\ Idle(t)
                        /\ ops[t] > 0
                        /\ expected[t] \notin {NullPair, InitialPair(wide)}

\* the control pointer that load or a failing compare_exchange is about to
\* pass to Policy::increment, nullptr when the thread is not at that point
AboutToIncrement(t) ==
    IF pc[t] = "load_body"
       \/ (pc[t] = "cas_body" /\ wide
           /\ ~acv_as_expected(acv_sans_meta(ctrl_meta[t]), m_value, expected[t]))
       \/ (pc[t] = "cas_body" /\ ~wide /\ ~acc_as_expected(ctrl_meta[t], expected[t]))
    THEN ctrl_meta[t]
    ELSE nullptr

\* C10: when load or the failure path of compare_exchange applies
\* Policy::increment, the block still carries the reference of the atomic:
\* it is not deallocated, its control count is at least 1 and, with the
\* shared policy, its value count is at least 1 and it is not destructed.
IncrementFindsReference ==
    \A t \in Users :
        AboutToIncrement(t) # nullptr =>
            LET c == ctl[BlockOf(AboutToIncrement(t))] IN
            /\ ~c.m_deallocated
            /\ to_control_count(c.m_counter) >= 1
            /\ policy = "shared" => /\ to_value_count(c.m_counter) >= 1
                                    /\ ~c.m_destructed

\* a thread is about to increment the block of the atomic, which holds the
\* only reference left to it, while another thread spins to replace it
IncrementFindsReferenceWitness ==
    \E t \in Users, u \in Users :
        /\ t # u
        /\ AboutToIncrement(t) # nullptr
        /\ to_control_count(ctl[BlockOf(AboutToIncrement(t))].m_counter) = 1
        /\ pc[u] \in {"store_lock", "exchange_lock", "exchange_cas", "cas_lock"}

(***************************************************************************)
(* References of a block as its counter tells them: a deallocated block    *)
(* has none.  RefsChange(ptr, n): the step changes the references of the   *)
(* block of ptr by n policy units and those of no other block.             *)
(***************************************************************************)
Refs(c) == IF c.m_deallocated THEN 0 ELSE to_control_count(c.m_counter)
StrongRefs(c) == IF c.m_deallocated THEN 0 ELSE to_value_count(c.m_counter)

RefsChange(ptr, n) ==
    \A b \in Blocks :
        LET k == IF ptr # nullptr /\ b = BlockOf(ptr) THEN n ELSE 0 IN
        /\ Refs(ctl'[b]) = Refs(ctl[b]) + k
        /\ StrongRefs(ctl'[b]) = StrongRefs(ctl[b]) + (IF policy = "shared" THEN k ELSE 0)

\* the step of thread t from one position to another
Step(t, from, to) == pc[t] = from /\ pc'[t] = to

\* the atomic's pointer, value pointer and notify bit are left as they are
\* (the lock bit aside)
SlotKept == /\ clear_bit(m_ctrl', bit_locked) = clear_bit(m_ctrl, bit_locked)
            /\ m_value' = m_value

\* C11: a compare_exchange that finds a pair different from expected takes the
\* failure path (returns false): it leaves the stored pair unchanged, adds
\* exactly one reference to the block it found, writes the pair it found into
\* expected, releases exactly one reference on the block expected referred to
\* before and exactly one on desired.
CasFailureEffect ==
    [][ \A t \in Users :
          /\ Step(t, "cas_body", "cas_unlock_failure") =>
                /\ <<BlockOf(m_ctrl), m_value>> # expected[t]
                /\ ctrl_meta[t] = clear_bit(m_ctrl, bit_locked)
                /\ value'[t] = m_value
                /\ RefsChange(m_ctrl, 1)
                /\ SlotKept
                /\ UNCHANGED <<expected, desired>>
          /\ Step(t, "cas_unlock_failure", "cas_decrement_expected") =>
                /\ SlotKept /\ ~has_bit(m_ctrl', bit_locked)
                /\ UNCHANGED <<ctl, expected, desired>>
          /\ Step(t, "cas_decrement_expected", "cas_decrement_desired") =>
                /\ expected'[t] = <<BlockOf(ctrl_meta[t]), value[t]>>
                /\ RefsChange(expected[t][1], -1)
                /\ UNCHANGED <<m_ctrl, m_value, desired>>
          /\ Step(t, "cas_decrement_desired", "idle") =>
                /\ RefsChange(desired[t][1], -1)
                /\ desired'[t] = NullPair
                /\ UNCHANGED <<m_ctrl, m_value, expected>>
      ]_vars

\* a failed compare_exchange has replaced the caller's expected by a pair of
\* another block and is about to release desired
CasFailureWitness ==
    \E t \in Users :
        /\ pc[t] = "cas_decrement_desired"
        /\ expected[t][1] = 8
        /\ desired[t] # NullPair

\* C12: a compare_exchange that finds the stored pair equal to expected takes
\* the success path (returns true, never the failure path): afterwards the
\* atomic stores desired and owns the reference desired carried, exactly one
\* reference on the block stored before is released, and expected with its
\* reference is left as it was.
CasSuccessEffect ==
    [][ \A t \in Users :
          /\ (pc[t] = "cas_body" /\ pc'[t] # "cas_body"
              /\ <<BlockOf(m_ctrl), m_value>> = expected[t]) =>
                pc'[t] = "cas_unlock_success"
          /\ Step(t, "cas_body", "cas_unlock_success") =>
                /\ <<BlockOf(m_ctrl), m_value>> = expected[t]
                /\ ctrl_meta[t] = clear_bit(m_ctrl, bit_locked)
                /\ m_ctrl' = m_ctrl
                /\ UNCHANGED <<ctl, expected, desired>>
          /\ Step(t, "cas_unlock_success", "cas_decrement_previous") =>
                /\ <<BlockOf(m_ctrl'), m_value'>> = desired[t]
                /\ ~has_bit(m_ctrl', bit_locked)
                /\ desired'[t] = NullPair
                /\ UNCHANGED <<ctl, expected>>
          /\ Step(t, "cas_decrement_previous", "idle") =>
                /\ BlockOf(ctrl_meta[t]) = expected[t][1]
                /\ RefsChange(expected[t][1], -1)
                /\ UNCHANGED <<m_ctrl, m_value, expected, desired>>
      ]_vars

\* a successful compare_exchange has installed desired and is about to
\* release the reference of the pair stored before, which the caller still
\* owns as expected
CasSuccessWitness ==
    \E t \in Users :
        /\ pc[t] = "cas_decrement_previous"
        /\ expected[t] # NullPair
        /\ <<BlockOf(m_ctrl), m_value>> # expected[t]

\* C13: load returns the pair stored at the time, raises the count of its
\* block by exactly one policy unit (nothing for nullptr) and leaves the
\* stored control pointer, value pointer and notify bit exactly as they were.
LoadEffect ==
    [][ \A t \in Users :
          /\ Step(t, "load_body", "load_unlock") =>
                /\ ctrl_meta[t] = clear_bit(m_ctrl, bit_locked)
                /\ RefsChange(m_ctrl, 1)
                /\ SlotKept
                /\ UNCHANGED <<expected, desired>>
          /\ Step(t, "load_unlock", "idle") =>
                /\ expected'[t] = <<BlockOf(m_ctrl), m_value>>
                /\ SlotKept /\ ~has_bit(m_ctrl', bit_locked)
                /\ UNCHANGED <<ctl, desired>>
          /\ pc[t] \in {"load_lock", "load_body", "load_unlock"} =>
                /\ has_bit(m_ctrl', bit_notify) = has_bit(m_ctrl, bit_notify)
                   \/ pc'[t] = pc[t]
      ]_vars

\* a load has returned a pair other than the initial one, which the atomic
\* still stores with the notify bit set
LoadWitness ==
    \E t \in Users :
        /\ Idle(t) /\ ops[t] > 0
        /\ expected[t] \notin {NullPair, InitialPair(wide)}
        /\ expected[t] = <<BlockOf(m_ctrl), m_value>>
        /\ has_bit(m_ctrl, bit_notify)

\* the pointers to block b that exist: the atomic's, and the users' expected
\* and desired pointers
Owners(b) ==
    (IF constructed /\ BlockOf(m_ctrl) = b THEN 1 ELSE 0)
    + Cardinality({t \in Users : expected[t][1] = b})
    + Cardinality({t \in Users : desired[t][1] = b})

AllUsersIdle == \A t \in Users : Idle(t)

\* C14: store makes the atomic hold desired and take over the reference
\* desired carried without an increment, and releases exactly one reference
\* on the block stored before, also when both are the same block; when the
\* store has returned and no other call is running, every block counts
\* exactly its owners, the atomic included.
StoreEffect ==
    [][ \A t \in Users :
          /\ Step(t, "store_body", "store_unlock") =>
                /\ ctrl_meta[t] = clear_bit(m_ctrl, bit_locked)
                /\ m_ctrl' = m_ctrl
                /\ UNCHANGED <<ctl, expected, desired>>
          /\ Step(t, "store_unlock", "store_decrement") =>
                /\ ctrl_meta[t] = clear_bit(m_ctrl, bit_locked)
                /\ <<BlockOf(m_ctrl'), m_value'>> = desired[t]
                /\ ~has_bit(m_ctrl', bit_locked)
                /\ desired'[t] = NullPair
                /\ UNCHANGED <<ctl, expected>>
          /\ Step(t, "store_decrement", "idle") =>
                /\ RefsChange(ctrl_meta[t], -1)
                /\ UNCHANGED <<m_ctrl, m_value, expected, desired>>
                /\ AllUsersIdle' =>
                      \A b \in Blocks :
                          /\ Refs(ctl'[b]) = Owners(b)'
                          /\ policy = "shared" => StrongRefs(ctl'[b]) = Owners(b)'
      ]_vars

\* a store of an alias of the pointer the atomic holds has been installed and
\* the storing thread is about to release the reference of the same block
StoreWitness ==
    \E t \in Users :
        /\ pc[t] = "store_decrement"
        /\ ctrl_meta[t] # nullptr
        /\ BlockOf(ctrl_meta[t]) = BlockOf(m_ctrl)
        /\ has_bit(m_ctrl, bit_notify)

\* C15: exchange returns exactly the pair that was stored immediately before
\* desired was installed, hands the atomic's reference on that block to the
\* returned pointer and desired's reference to the atomic, and changes no
\* counter; the pair passes to this caller alone (the owners of every block
\* stay as many as they were).
ExchangeEffect ==
    [][ \A t \in Users :
          /\ (pc[t] \in {"exchange_lock", "exchange_body", "exchange_unlock", "exchange_cas"}
              /\ pc'[t] # pc[t]) => ctl' = ctl
          /\ Step(t, "exchange_body", "exchange_unlock") =>
                /\ ctrl_meta[t] = clear_bit(m_ctrl, bit_locked)
                /\ value'[t] = m_value
                /\ m_ctrl' = m_ctrl
                /\ UNCHANGED <<expected, desired>>
          /\ Step(t, "exchange_unlock", "idle") =>
                /\ expected'[t] = <<BlockOf(m_ctrl), value[t]>>
                /\ <<BlockOf(m_ctrl'), m_value'>> = desired[t]
                /\ ~has_bit(m_ctrl', bit_locked)
                /\ desired'[t] = NullPair
                /\ \A b \in Blocks : Owners(b)' = Owners(b)
          /\ Step(t, "exchange_cas", "idle") =>
                /\ ~has_bit(m_ctrl, bit_locked)
                /\ expected'[t] = <<BlockOf(m_ctrl), m_value>>
                /\ <<BlockOf(m_ctrl'), m_value'>> = desired[t]
                /\ ~has_bit(m_ctrl', bit_locked)
                /\ desired'[t] = NullPair
                /\ \A b \in Blocks : Owners(b)' = Owners(b)
      ]_vars

\* an exchange holds the lock with the previous value pointer taken, after an
\* earlier call installed another pair, while a second exchange spins
ExchangeWitness ==
    \E t \in Users, u \in Users :
        /\ pc[t] = "exchange_unlock"
        /\ pc[u] = "exchange_lock"
        /\ Cardinality(installed) >= 2
        /\ value[t] # m_value

\* references of block b held by a call in progress: the previous pointer a
\* store or compare_exchange still has to release, and the reference a load
\* or failing compare_exchange has added but not yet handed to its caller
InFlight(b) ==
    Cardinality({t \in Users :
        /\ pc[t] \in {"store_decrement", "cas_decrement_previous", "load_unlock",
                      "cas_unlock_failure", "cas_decrement_expected"}
        /\ ctrl_meta[t] # nullptr
        /\ BlockOf(ctrl_meta[t]) = b})

\* C16: use_count of a block (the value half of its counter) equals the
\* number of live strong owners, the atomic slot counting as one: a copy adds
\* one, handing a pointer over adds none, destruction removes one; weak
\* owners count in the control half only and leave use_count at zero; a
\* block is deallocated only when nothing owns it.
UseCountExact ==
    \A b \in Blocks :
        LET n == Owners(b) + InFlight(b) IN
        IF ctl[b].m_deallocated
        THEN n = 0
        ELSE /\ to_control_count(ctl[b].m_counter) = n
             /\ to_value_count(ctl[b].m_counter) = (IF policy = "shared" THEN n ELSE 0)

\* strong owners: the second block has gained an owner by a copy or a load
\* while a call on the atomic still holds a reference of the first block
UseCountWitness ==
    /\ policy = "shared"
    /\ to_value_count(ctl[8].m_counter) >= 2
    /\ InFlight(4) >= 1
    /\ to_value_count(ctl[4].m_counter) = Owners(4) + 1

(***************************************************************************)
(* Further properties of the counter protocol (SpecCounter).               *)
(***************************************************************************)
\* the step of thread t from one position of a counter operation to another
CounterStep(t, from, to) == pc[t] = from /\ pc'[t] = to

\* C17: releasing the last strong reference while a weak reference remains
\* invokes destruct and not deallocate; from then on lock() on a weak pointer
\* adds nothing (empty pointer) and use_count is zero (expired); releasing the
\* last weak reference afterwards invokes deallocate.
ExpireThenDeallocate ==
    [][ \A t \in Threads :
          /\ (pc[t] = "idle" /\ strong'[t] < strong[t]
              /\ m_counter - m_counter' = shared_one
              /\ to_value_count(m_counter) = 1 /\ HeldWeak > 0) =>
                pc'[t] = "sd_destruct"
          /\ CounterStep(t, "sd_destruct", "idle") =>
                /\ destructCalls' = Append(destructCalls, t)
                /\ deallocCalls' = deallocCalls
                /\ HeldWeak > 0 => ~m_deallocated'
          /\ (CounterStep(t, "sinz_loop", "idle") /\ destructCalls # <<>>) =>
                /\ strong' = strong
                /\ m_counter' = m_counter
                /\ to_value_count(m_counter) = 0
          /\ (pc[t] = "idle" /\ weak'[t] < weak[t] /\ pc'[t] # "idle"
              /\ HeldWeak = 1 /\ HeldStrong = 0 /\ destructCalls # <<>>
              /\ WeakDecPending = {}) =>
                pc'[t] = "wd_deallocate_fast"
          /\ CounterStep(t, "wd_deallocate_fast", "idle") =>
                /\ deallocCalls' = Append(deallocCalls, t)
                /\ destructCalls' = destructCalls
      ]_vars

\* the last strong owner's destruct and, later and by another thread, the
\* last weak owner's deallocate have both run, no assertion having failed
ExpireThenDeallocateWitness ==
    /\ AllIdle
    /\ Len(destructCalls) = 1 /\ Len(deallocCalls) = 1
    /\ destructCalls[1] # deallocCalls[1]
    /\ failed = {}

\* C18: shared_dec subtracts one shared quantum and decides its callbacks
\* from the value before the decrement alone: destruct then deallocate when it
\* was exactly shared_one, destruct only when its value half was 1 and its
\* control half above 1, none otherwise.
SharedDecDecides ==
    [][ \A t \in Threads :
          /\ (pc[t] = "idle" /\ strong'[t] < strong[t] /\ weak' = weak
              /\ HeldStrong' < HeldStrong) =>
                /\ m_counter' = m_counter - shared_one
                /\ UNCHANGED <<destructCalls, deallocCalls>>
                /\ pc'[t] = IF m_counter = shared_one THEN "sd_destruct_deallocate"
                            ELSE IF to_value_count(m_counter) = 1
                                    /\ to_control_count(m_counter) > 1
                                 THEN "sd_destruct"
                                 ELSE "idle"
          /\ CounterStep(t, "sd_destruct_deallocate", "sd_deallocate") =>
                /\ destructCalls' = Append(destructCalls, t)
                /\ deallocCalls' = deallocCalls
          /\ CounterStep(t, "sd_deallocate", "idle") =>
                /\ deallocCalls' = Append(deallocCalls, t)
                /\ destructCalls' = destructCalls
          /\ pc[t] = "sd_destruct_deallocate" => pc'[t] \in {pc[t], "sd_deallocate"}
          /\ pc[t] = "sd_deallocate" => pc'[t] \in {pc[t], "idle"}
          /\ pc[t] = "sd_destruct" => pc'[t] \in {pc[t], "idle"}
      ]_vars

\* after a shared_inc and a first shared_dec that invoked nothing, the second
\* shared_dec, by another thread, found exactly shared_one, has invoked
\* destruct and is about to invoke deallocate
SharedDecDecidesWitness ==
    \E t \in Threads :
        /\ t # 1
        /\ pc[t] = "sd_deallocate"
        /\ destructCalls = <<t>>
        /\ deallocCalls = <<>>
        /\ \A u \in Threads \ {t} : pc[u] = "idle"

\* C19: shared_inc_if_nonzero never partially applies: when it returns
\* added_shared_inc the value half was nonzero at the instant of its
\* compare-exchange and the counter is the old value plus shared_one; when it
\* returns no_inc the value half is zero and the counter is unchanged, as it
\* is for every call made after the last strong owner was dropped.
IncIfNonzeroAllOrNothing ==
    [][ \A t \in Threads :
          CounterStep(t, "sinz_loop", "idle") =>
              /\ strong'[t] \in {strong[t], strong[t] + 1}
              /\ strong'[t] = strong[t] + 1 =>
                    /\ to_value_count(m_counter) > 0
                    /\ m_counter' = m_counter + shared_one
                    /\ zeroedBy = <<>>
              /\ strong'[t] = strong[t] =>
                    /\ to_value_count(m_counter) = 0
                    /\ m_counter' = m_counter
              /\ zeroedBy # <<>> => (strong' = strong /\ m_counter' = m_counter)
      ]_vars

\* a weak owner called shared_inc_if_nonzero after destruct had run and is
\* about to leave the loop with no_inc
IncIfNonzeroWitness ==
    \E t \in Threads :
        /\ pc[t] = "sinz_loop"
        /\ weak[t] > 0
        /\ to_value_count(counter[t]) = 0
        /\ destructCalls # <<>>
        /\ m_counter = counter[t]

(***************************************************************************)
(* Further properties of the atomic objects (SpecAtomic).                  *)
(***************************************************************************)
WaitLabels == {"wait_lock", "wait_body", "wait_unlock", "wait_atomic", "wait_blocked",
               "wait_again"}

\* C20: wait on the double word atomic returns only from the comparison it
\* makes after unlocking, and only when the pair it copied while it held the
\* lock, which is the pair stored then, differs from the old pair: not on a
\* wake-up or a notify alone, not after a store of the same pair, and not on
\* seeing the lock bit of another thread.
WaitReturnsOnChange ==
    [][ \A t \in Users :
          (wide /\ pc[t] \in WaitLabels /\ pc'[t] = "idle") =>
              /\ pc[t] = "wait_unlock"
              /\ m_ctrl = set_bit(ctrl_meta[t], bit_locked)
              /\ value[t] = m_value
              /\ <<BlockOf(ctrl_meta[t]), value[t]>> # expected[t]
      ]_vars

\* a waiter holds the lock and has copied a pair that differs from its old
\* pair in the value pointer only
WaitReturnsWitness ==
    \E t \in Users :
        /\ wide
        /\ pc[t] = "wait_unlock"
        /\ expected[t] # NullPair
        /\ BlockOf(ctrl_meta[t]) = expected[t][1]
        /\ value[t] # expected[t][2]
        /\ has_bit(ctrl_meta[t], bit_notify)

\* C21: wait(old) on the single word atomic returns only when the control
\* pointer the atomic holds differs from old: not while the atomic still
\* holds old and another thread is inside load or compare_exchange on it.
NarrowWaitReturnsOnChange ==
    [][ \A t \in Users :
          (~wide /\ pc[t] \in WaitLabels /\ pc'[t] = "idle") =>
              acc_expected_unlocked(m_ctrl) # expected[t][1]
      ]_vars

(***************************************************************************)
(* The wait / notify programs of the tests (atomic_shared_ptr_wait,        *)
(* notify_one, notify_all, atomic_wide_shared_ptr_wait_alias): the atomic  *)
(* z holds x; the waiter threads call z.wait(x), or z.load() when they own *)
(* no pointer; the main thread performs one operation on z with y (store   *)
(* in the tests) and then either z.notify_one(), and once more when one   *)
(* waiter has returned, or z.notify_all().  Every thread makes one call:   *)
(* ops starts at MaxOps - 1, and the notifications of the main thread      *)
(* count as its further operations.                                        *)
(***************************************************************************)
Waiters == 1..NumWaiters
Mutator == NumWaiters + 1
LiveThreads == 1..(NumWaiters + 1)

\* y: a pointer to another block or, double word, an alias of x
LiveDesired(w) == IF w THEN {<<4, 2>>, <<8, 1>>} ELSE {<<8, nullptr>>}

\* the references the pointers of the program hold on block b
LiveRefs(b) ==
    (IF BlockOf(m_ctrl) = b THEN 1 ELSE 0)
    + Cardinality({t \in LiveThreads : expected[t][1] = b})
    + Cardinality({t \in LiveThreads : desired[t][1] = b})

InitLive ==
    /\ constructed = TRUE
    /\ wide \in BOOLEAN
    /\ policy \in {"shared", "weak"}
    /\ m_ctrl = InitialPair(wide)[1]
    /\ m_value = InitialPair(wide)[2]
    /\ expected \in [LiveThreads -> {InitialPair(wide), NullPair}]
    /\ \E y \in LiveDesired(wide) :
          desired = [t \in LiveThreads |-> IF t = Mutator THEN y ELSE NullPair]
    /\ ctl = [b \in Blocks |-> InitialControl(policy, LiveRefs(b))]
    /\ ctrl_meta = [t \in LiveThreads |-> 0]
    /\ value = [t \in LiveThreads |-> 0]
    /\ toggle_notify = [t \in LiveThreads |-> FALSE]
    /\ installed = {InitialPair(wide)}
    /\ notified = "each"
    /\ ops = [t \in LiveThreads |-> MaxOps - 1]
    /\ pc = [t \in LiveThreads |-> "idle"]
    /\ failed = {}
    /\ freedAccess = {}
    /\ m_counter = 0 /\ m_destructed = FALSE /\ m_deallocated = FALSE
    /\ destructCalls = <<>> /\ deallocCalls = <<>> /\ zeroedBy = <<>>
    /\ counter = <<>> /\ strong = <<>> /\ weak = <<>>

\* thread t has made its call on the atomic and the call has returned
Returned(t) == Idle(t) /\ ops[t] >= MaxOps

\* z.notify_one() of the main thread: the first one after its operation, the
\* second one when a waiter has returned
live_notify_one ==
    /\ UNCHANGED counterVars
    /\ Idle(Mutator)
    /\ \/ ops[Mutator] = MaxOps
       \/ ops[Mutator] = MaxOps + 1 /\ \E w \in Waiters : Returned(w)
    /\ ops' = [ops EXCEPT ![Mutator] = @ + 1]
    /\ IF Blocked = {}
       THEN UNCHANGED pc
       ELSE \E w \in Blocked : Goto(w, "wait_atomic")
    /\ IF Cardinality(Blocked) <= 1 THEN Notified ELSE UNCHANGED notified
    /\ NoCount
    /\ UNCHANGED <<constructed, wide, policy, m_ctrl, m_value, ctrl_meta, value, toggle_notify,
                   expected, desired, installed>>

\* z.notify_all() of the main thread, after its operation
live_notify_all ==
    /\ UNCHANGED counterVars
    /\ Idle(Mutator)
    /\ ops[Mutator] = MaxOps
    /\ ops' = [ops EXCEPT ![Mutator] = @ + 2]
    /\ pc' = [w \in DOMAIN pc |-> IF w \in Blocked THEN "wait_atomic" ELSE pc[w]]
    /\ Notified
    /\ NoCount
    /\ UNCHANGED <<constructed, wide, policy, m_ctrl, m_value, ctrl_meta, value, toggle_notify,
                   expected, desired, installed>>

\* the locking compare-exchange loops
LiveLock(t) ==
    \/ acv_lock_load_expected(t)
    \/ acc_lock_load_expected(t)
    \/ acc_lock_exchange(t)

\* the calls the threads make
LiveBegin(t) ==
    \/ t \in Waiters /\ acv_wait_begin(t)
    \/ t \in Waiters /\ acc_wait_begin(t)
    \/ acv_load_begin(t)
    \/ acc_load_begin(t)
    \/ t = Mutator /\ acv_store_begin(t)
    \/ t = Mutator /\ acc_store_begin(t)
    \/ t = Mutator /\ acv_exchange_begin(t)
    \/ t = Mutator /\ acc_exchange_begin(t)
    \/ t = Mutator /\ acv_cas_begin(t)
    \/ t = Mutator /\ acc_cas_begin(t)

\* the steps of a call under way, the locking loops aside
LiveBody(t) ==
    \/ acv_store_body(t)
    \/ acv_store_unlock(t)
    \/ acv_store_decrement(t)
    \/ acv_load_body(t)
    \/ acv_load_unlock(t)
    \/ acv_exchange_body(t)
    \/ acv_exchange_unlock(t)
    \/ acv_cas_body(t)
    \/ acv_cas_unlock_success(t)
    \/ acv_cas_decrement_previous(t)
    \/ acv_cas_unlock_failure(t)
    \/ acv_cas_decrement_expected(t)
    \/ acv_cas_decrement_desired(t)
    \/ acv_wait_body(t)
    \/ acv_wait_unlock(t)
    \/ acv_wait_atomic(t)
    \/ acv_wait_again(t)
    \/ acc_store_unlock(t)
    \/ acc_store_decrement(t)
    \/ acc_load_body(t)
    \/ acc_load_unlock(t)
    \/ acc_cas_body(t)
    \/ acc_cas_unlock_success(t)
    \/ acc_cas_decrement_previous(t)
    \/ acc_cas_unlock_failure(t)
    \/ acc_cas_decrement_expected(t)
    \/ acc_cas_decrement_desired(t)
    \/ acc_wait_atomic(t)

NextLive ==
    \/ \E t \in LiveThreads : LiveBegin(t)
    \/ \E t \in LiveThreads : LiveLock(t)
    \/ \E t \in LiveThreads : LiveBody(t)
    \/ \E t \in LiveThreads : spurious_wakeup(t)
    \/ live_notify_one
    \/ live_notify_all

\* Scheduling: every thread goes on running (a call it is to make is made, a
\* step of a call under way is taken), and a thread spinning for the lock
\* bit, whose compare-exchange can succeed again and again, wins it at some
\* time.  Nothing is assumed about notifications or spurious wake-ups.
LiveFairness ==
    \A t \in LiveThreads :
        /\ WF_vars(LiveBegin(t))
        /\ WF_vars(LiveBody(t))
        /\ SF_vars(LiveLock(t))

SpecLive == InitLive /\ [][NextLive]_vars /\ LiveFairness

(***************************************************************************)
(* Properties of waiting and notification (SpecLive).                      *)
(***************************************************************************)
\* the main thread's notifications are issued when its program reaches them
NotifyOneIssued == WF_vars(live_notify_one)
NotifyAllIssued == WF_vars(live_notify_all)

\* an alias of x (same control pointer, another value pointer) was installed
AliasInstalled ==
    /\ wide
    /\ \E p \in installed : p[1] = InitialPair(wide)[1] /\ p[2] # InitialPair(wide)[2]

\* thread w is in, or still has to make, the call wait(x)
WaitsOnInitial(w) == expected[w] = InitialPair(wide) /\ ~Returned(w)

\* no thread but w is or will be blocked in wait(x)
OnlyWaiter(w) == \A u \in Waiters \ {w} : Returned(u) \/ expected[u] = NullPair

CallsAfterChange(w) == Idle(w) /\ ops[w] < MaxOps /\ Stored # expected[w]

Mutation == Cardinality(installed) >= 2

ValueAccess == {"store_body", "load_body", "exchange_body", "cas_body", "wait_body"}

\* C25: on the double word atomic m_value is read or written only by the
\* thread that holds the lock bit: a thread of store, load, exchange,
\* compare_exchange or wait that accesses m_value is the one thread between
\* its locking compare-exchange and its unlock_store, the lock word is the
\* word it locked with bit_locked set, and m_value changes in no other step.
ValueAccessUnderLock ==
    [][ /\ \A t \in Users :
              (wide /\ pc[t] \in ValueAccess /\ pc'[t] # pc[t]) =>
                  /\ has_bit(m_ctrl, bit_locked)
                  /\ m_ctrl = set_bit(ctrl_meta[t], bit_locked)
                  /\ InCritical = {t}
                  /\ has_bit(m_ctrl', bit_locked)
                  /\ value'[t] \in {value[t], m_value}
        /\ m_value' # m_value =>
              \E t \in Users : wide /\ pc[t] \in ValueAccess /\ pc'[t] # pc[t]
        /\ \A t \in Users :
              (wide /\ value'[t] # value[t] /\ value'[t] # nullptr) =>
                  pc[t] \in ValueAccess
      ]_vars

\* a failing compare_exchange is about to copy m_value under the lock while
\* another thread, which has just stored that value pointer, has not yet
\* released the previous reference
ValueAccessWitness ==
    \E t \in Users, u \in Users :
        /\ wide
        /\ pc[t] = "cas_body"
        /\ ~acv_as_expected(acv_sans_meta(ctrl_meta[t]), m_value, expected[t])
        /\ pc[u] \in {"store_decrement", "cas_decrement_previous"}
        /\ m_value # InitialPair(wide)[2]

(***************************************************************************)
(* The life of one atomic object, from its constructor to its destructor:  *)
(* it is constructed from a pointer to the first block or, double word,    *)
(* from an empty pointer that aliases a value (null control pointer, non   *)
(* null value pointer); the first user owns a copy of that pointer and an  *)
(* alias of it as desired, the second user a pointer to the second block;  *)
(* the users call store, load, exchange and compare_exchange, and the      *)
(* object is destroyed when no call is under way.                          *)
(***************************************************************************)
LifetimeInitial(w) == IF w THEN {<<4, 1>>, <<nullptr, 1>>} ELSE {<<4, nullptr>>, NullPair}

LifetimeDesired(w, p, t) ==
    IF t % 2 = 1 THEN (IF w THEN <<p[1], 2>> ELSE p)
    ELSE (IF w THEN <<8, 1>> ELSE <<8, nullptr>>)

InitLifetime ==
    /\ constructed = TRUE
    /\ wide \in BOOLEAN
    /\ policy \in {"shared", "weak"}
    /\ \E p \in LifetimeInitial(wide) :
          /\ m_ctrl = p[1]
          /\ m_value = p[2]
          /\ expected = [t \in Users |-> IF t % 2 = 1 THEN p ELSE NullPair]
          /\ desired = [t \in Users |-> LifetimeDesired(wide, p, t)]
          /\ installed = {p}
    /\ ctl = [b \in Blocks |-> InitialControl(policy, Owners(b))]
    /\ ctrl_meta = [t \in Users |-> 0]
    /\ value = [t \in Users |-> 0]
    /\ toggle_notify = [t \in Users |-> FALSE]
    /\ notified = "each"
    /\ ops = [t \in Users |-> 0]
    /\ pc = [t \in Users |-> "idle"]
    /\ failed = {}
    /\ freedAccess = {}
    /\ m_counter = 0 /\ m_destructed = FALSE /\ m_deallocated = FALSE
    /\ destructCalls = <<>> /\ deallocCalls = <<>> /\ zeroedBy = <<>>
    /\ counter = <<>> /\ strong = <<>> /\ weak = <<>>

NextLifetime ==
    \E t \in Users :
        \/ pointer_destroy(t)
        \/ acv_lock_load_expected(t)
        \/ acv_store_begin(t)
        \/ acv_store_body(t)
        \/ acv_store_unlock(t)
        \/ acv_store_decrement(t)
        \/ acv_load_begin(t)
        \/ acv_load_body(t)
        \/ acv_load_unlock(t)
        \/ acv_exchange_begin(t)
        \/ acv_exchange_body(t)
        \/ acv_exchange_unlock(t)
        \/ acv_cas_begin(t)
        \/ acv_cas_body(t)
        \/ acv_cas_unlock_success(t)
        \/ acv_cas_decrement_previous(t)
        \/ acv_cas_unlock_failure(t)
        \/ acv_cas_decrement_expected(t)
        \/ acv_cas_decrement_desired(t)
        \/ acv_destructor(t)
        \/ acc_lock_load_expected(t)
        \/ acc_store_begin(t)
        \/ acc_store_unlock(t)
        \/ acc_store_decrement(t)
        \/ acc_load_begin(t)
        \/ acc_load_body(t)
        \/ acc_load_unlock(t)
        \/ acc_exchange_begin(t)
        \/ acc_lock_exchange(t)
        \/ acc_cas_begin(t)
        \/ acc_cas_body(t)
        \/ acc_cas_unlock_success(t)
        \/ acc_cas_decrement_previous(t)
        \/ acc_cas_unlock_failure(t)
        \/ acc_cas_decrement_expected(t)
        \/ acc_cas_decrement_desired(t)
        \/ acc_destructor(t)

SpecLifetime == InitLifetime /\ [][NextLifetime]_vars

(***************************************************************************)
(* Properties of the life of an atomic object (SpecLifetime).              *)
(***************************************************************************)
\* C26: no pointer handed to a caller or to a counter operation carries meta
\* data bits: the control pointers that load, exchange and a failing
\* compare_exchange gave their callers, and every pointer passed to
\* Policy::increment or Policy::decrement, by the destructor too, have
\* bit_locked and bit_notify clear, also when the lock word is a null
\* pointer with bit_notify set.
NoMetaBitsHandedOut ==
    /\ \A t \in Users :
          /\ ~has_bit(expected[t][1], bit_locked)
          /\ ~has_bit(expected[t][1], bit_notify)
          /\ expected[t][1] \in Blocks \cup {nullptr}
    /\ \A f \in failed : f[2] # "pointer with meta data bits"

\* the double word atomic held a null control pointer with bit_notify set
\* when it was destroyed, after a call had handed that empty pointer, with
\* the value pointer stored last, to its caller
NoMetaBitsWitness ==
    /\ wide
    /\ ~constructed
    /\ m_ctrl = bit_notify
    /\ \E t \in Users : ops[t] > 0 /\ expected[t] = <<nullptr, m_value>> /\ t % 2 = 0

\* the references on block b that are not held by the users' pointers or by
\* a call in progress
AtomicRefs(b) ==
    Refs(ctl[b])
    - Cardinality({t \in Users : expected[t][1] = b})
    - Cardinality({t \in Users : desired[t][1] = b})
    - InFlight(b)

\* C27: from its construction to its destruction the atomic owns exactly one
\* reference, of its policy's kind, on the block it stores and none on any
\* other block, through every sequence of load, store, exchange and
\* compare_exchange; its destructor releases exactly one reference on the
\* block stored then, bit_notify set or not, and none on any other block,
\* after which it owns none.
AtomicOwnsOneReference ==
    /\ [](\A b \in Blocks :
            /\ AtomicRefs(b) = IF constructed /\ BlockOf(m_ctrl) = b THEN 1 ELSE 0
            /\ (constructed /\ BlockOf(m_ctrl) = b) =>
                  /\ ~ctl[b].m_deallocated
                  /\ policy = "shared" => (StrongRefs(ctl[b]) >= 1 /\ ~ctl[b].m_destructed))
    /\ [][ (constructed /\ ~constructed') =>
              /\ RefsChange(BlockOf(m_ctrl), -1)
              /\ ~has_bit(m_ctrl, bit_locked)
              /\ UNCHANGED <<m_ctrl, m_value, expected, desired>>
         ]_vars

\* the atomic was destroyed while its word carried bit_notify, and its
\* reference was the last one on the block
AtomicOwnsOneWitness ==
    /\ ~constructed
    /\ has_bit(m_ctrl, bit_notify)
    /\ BlockOf(m_ctrl) = 4
    /\ ctl[4].m_deallocated

\* the counter as the else branch of weak_dec alone would leave it: a thread
\* that took the fast path has not subtracted its weak_one
Plain(c, p) ==
    (c - weak_one * Cardinality({u \in Threads : p[u] = "wd_deallocate_fast"}))
    % CounterMod

\* C28: weak_dec with its fast path and weak_dec that always subtracts
\* weak_one and deallocates when the previous value was weak_one invoke the
\* same callbacks by the same operations in every interleaving.  Plain(c, p)
\* is the counter of the always-subtracting version: every thread that took
\* the fast path has subtracted its weak_one there.  Each step of weak_dec
\* is a step of the always-subtracting version on that counter (the peek that
\* does not take the fast path is a stuttering step), the fast path is taken
\* only when the subtraction would have found weak_one, and while a thread is
\* on the fast path no other thread holds a reference or is inside an
\* operation that reads the counter, so the missing subtraction is not
\* observed: the versions differ only in the word left in the block that
\* deallocate releases.
WeakDecFastPathEquivalent ==
    /\ [](\A t \in Threads : pc[t] = "wd_deallocate_fast" =>
            /\ m_counter = weak_one
            /\ HeldStrong = 0 /\ HeldWeak = 0
            /\ \A u \in Threads \ {t} :
                  pc[u] \notin {"sinz_loop", "wd_fetch_sub", "wd_deallocate_fast", "wd_deallocate"})
    /\ [][ \A t \in Threads :
            /\ (pc[t] = "idle" /\ pc'[t] = "wd_deallocate_fast") =>
                  /\ Plain(m_counter', pc') = fetch_sub(Plain(m_counter, pc), weak_one)
                  /\ weak_dec_branch(Plain(m_counter, pc)) = "wd_deallocate"
                  /\ UNCHANGED <<destructCalls, deallocCalls>>
            /\ (pc[t] = "idle" /\ pc'[t] = "wd_fetch_sub") =>
                  /\ Plain(m_counter', pc') = Plain(m_counter, pc)
                  /\ UNCHANGED <<destructCalls, deallocCalls>>
            /\ (pc[t] = "wd_fetch_sub" /\ pc'[t] # "wd_fetch_sub") =>
                  /\ Plain(m_counter', pc') = fetch_sub(Plain(m_counter, pc), weak_one)
                  /\ pc'[t] = weak_dec_branch(Plain(m_counter, pc))
                  /\ UNCHANGED <<destructCalls, deallocCalls>>
            /\ (pc[t] \in {"wd_deallocate_fast", "wd_deallocate"} /\ pc'[t] = "idle") =>
                  /\ Plain(m_counter, pc) = 0
                  /\ m_counter' = m_counter
                  /\ deallocCalls' = Append(deallocCalls, t)
                  /\ UNCHANGED destructCalls
         ]_vars

\* a weak_dec is on its fast path while the shared_dec that released the
\* last strong reference has not run its callbacks yet
WeakDecFastPathWitness ==
    \E t, u \in Threads :
        /\ pc[t] = "wd_deallocate_fast"
        /\ pc[u] = "sd_destruct"

\* C29: value_dec_for_shared_to_weak lowers the value half by one and leaves
\* the control half as it is; it invokes destruct, and never deallocate,
\* exactly when the value half was 1 before the decrement.  A successful
\* shared_inc_if_nonzero followed by value_dec_for_shared_to_weak leaves the
\* counter as weak_inc would (one more control unit, the value half as
\* before), and a failed promotion leaves the counter and every reference
\* count unchanged, the caller holding no strong reference to demote.
DemoteLowersValueHalfOnly ==
    [][ \A t \in Threads :
          /\ (pc[t] = "idle" /\ strong'[t] = strong[t] - 1 /\ weak'[t] = weak[t] + 1) =>
                /\ m_counter' = m_counter - value_one
                /\ to_value_count(m_counter') = to_value_count(m_counter) - 1
                /\ to_control_count(m_counter') = to_control_count(m_counter)
                /\ pc'[t] = (IF to_value_count(m_counter) = 1 THEN "vd_destruct" ELSE "idle")
                /\ UNCHANGED <<destructCalls, deallocCalls>>
          /\ (pc[t] = "vd_destruct" /\ pc'[t] # "vd_destruct") =>
                /\ pc'[t] = "idle"
                /\ destructCalls' = Append(destructCalls, t)
                /\ UNCHANGED <<deallocCalls, m_counter>>
          /\ (pc[t] = "sinz_loop" /\ pc'[t] = "idle") =>
                IF strong'[t] = strong[t] + 1
                THEN /\ fetch_sub(m_counter', value_one) = fetch_add(m_counter, weak_one)
                     /\ to_value_count(fetch_sub(m_counter', value_one)) = to_value_count(m_counter)
                     /\ to_control_count(fetch_sub(m_counter', value_one))
                           = to_control_count(m_counter) + 1
                ELSE /\ UNCHANGED <<m_counter, strong, weak>>
                     /\ strong[t] = 0
      ]_vars

\* a thread other than the first owner demoted the last strong reference
\* while weak references remain, and is about to invoke destruct
DemoteWitness ==
    \E t \in Threads \ {1} :
        /\ pc[t] = "vd_destruct"
        /\ to_value_count(m_counter) = 0
        /\ HeldWeak >= 2

Ptrs == 1..NumPtrs

sizeof_convertible_control == 2

\* variant: the control block is the aligned block the value lies in
convert_value_to_control_aligned(v) == BlockOf(v)

\* backward_offset_cast of a non-null value pointer, nullptr for nullptr
convert_value_to_control(v) ==
    IF v = nullptr THEN nullptr ELSE v - sizeof_convertible_control

\* the control block that increment / decrement of the pointer class reach
\* from the members of pointer p
ControlOf(p) ==
    IF wide \/ policy = "weak" THEN p[1] ELSE convert_value_to_control(p[2])

\* the control blocks after increment(ctrl) / decrement(ctrl)
\* variant: no increment is made
incremented_nothing(c, ctrl) == c
incremented(c, ctrl) == IF ctrl = nullptr THEN c ELSE [c EXCEPT ![ctrl] = policy_increment(@)]
decremented(c, ctrl) == IF ctrl = nullptr THEN c ELSE [c EXCEPT ![ctrl] = policy_decrement(@)]

\* a counter operation on a block that deallocate has released
released(c, ctrl) ==
    IF ctrl # nullptr /\ c[ctrl].m_deallocated THEN {<<"counter", ctrl>>} ELSE {}

\* make_shared (4 with its value at 6, 8 with its value at 10), a pointer to
\* a base at an offset inside the value (7), a pointer built from a raw
\* pointer with a control block of its own (8 and 13), an empty pointer
InitialPointers(w, pol) ==
    IF w /\ pol = "shared" THEN {NullPair, <<4, 6>>, <<4, 7>>, <<8, 13>>, <<8, 10>>}
    ELSE IF w THEN {NullPair, <<4, 6>>, <<4, 7>>, <<8, 13>>}
    ELSE IF pol = "shared" THEN {NullPair, <<nullptr, 6>>, <<nullptr, 10>>}
    ELSE {NullPair, <<4, nullptr>>, <<8, nullptr>>}

InitPointer ==
    /\ constructed = FALSE
    /\ wide \in BOOLEAN
    /\ policy \in {"shared", "weak"}
    /\ m_ctrl = nullptr /\ m_value = nullptr
    /\ expected \in [Ptrs -> InitialPointers(wide, policy)]
    /\ desired = [i \in Ptrs |-> NullPair]
    /\ ctl = [b \in Blocks |->
                InitialControl(policy, Cardinality({i \in Ptrs : ControlOf(expected[i]) = b}))]
    /\ ctrl_meta = <<>> /\ value = <<>> /\ toggle_notify = <<>>
    /\ installed = {} /\ notified = "each"
    /\ ops = [i \in Ptrs |-> 0]
    /\ pc = [t \in {1} |-> "idle"]
    /\ failed = {}
    /\ freedAccess = {}
    /\ m_counter = 0 /\ m_destructed = FALSE /\ m_deallocated = FALSE
    /\ destructCalls = <<>> /\ deallocCalls = <<>> /\ zeroedBy = <<>>
    /\ counter = <<>> /\ strong = <<>> /\ weak = <<>>

pointerFrame == <<m_counter, m_destructed, m_deallocated, destructCalls, deallocCalls,
                  zeroedBy, counter, strong, weak, constructed, wide, policy, m_ctrl,
                  m_value, ctrl_meta, value, toggle_notify, notified, failed>>

\* operator=(const P& other): increment(other), decrement(this), copy
copy_assign(i, j) ==
    LET other == ControlOf(expected[j])
        c1 == incremented(ctl, other)
        this == ControlOf(expected[i])
    IN
    /\ Idle(1)
    /\ ctl' = decremented(c1, this)
    /\ freedAccess' = freedAccess \cup released(ctl, other) \cup released(c1, this)
    /\ expected' = [expected EXCEPT ![i] = expected[j]]
    /\ installed' = installed \cup {expected[j]}
    /\ UNCHANGED <<desired, ops, pc>>
    /\ UNCHANGED pointerFrame

\* operator=(P&& other): shared_ptr, weak_ptr and wide_shared_ptr test
\* this != &other, wide_weak_ptr does not
move_assign_tests_self == ~(wide /\ policy = "weak")

\* operator=(P&& other): exchange(other, nullptr), decrement(this), take
move_assign(i, j) ==
    LET e1 == [expected EXCEPT ![j] = NullPair]
        this == ControlOf(e1[i])
    IN
    /\ Idle(1)
    /\ IF move_assign_tests_self /\ i = j
       THEN UNCHANGED <<ctl, freedAccess, expected>>
       ELSE /\ ctl' = decremented(ctl, this)
            /\ freedAccess' = freedAccess \cup released(ctl, this)
            /\ expected' = [e1 EXCEPT ![i] = expected[j]]
    /\ installed' = installed \cup {expected[j]}
    /\ UNCHANGED <<desired, ops, pc>>
    /\ UNCHANGED pointerFrame

\* reset() / the destructor of pointer object i
ptr_reset(i) ==
    /\ Idle(1)
    /\ expected[i] # NullPair
    /\ ctl' = decremented(ctl, ControlOf(expected[i]))
    /\ freedAccess' = freedAccess \cup released(ctl, ControlOf(expected[i]))
    /\ expected' = [expected EXCEPT ![i] = NullPair]
    /\ UNCHANGED <<desired, ops, pc>>
    /\ UNCHANGED installed
    /\ UNCHANGED pointerFrame

\* wide_shared_ptr::collapse() const &
collapse_lvalue(i) ==
    /\ Idle(1)
    /\ wide /\ policy = "shared"
    /\ desired[i] = NullPair
    /\ ops[i] < MaxOps
    /\ ops' = [ops EXCEPT ![i] = @ + 1]
    /\ IF convert_value_to_control(expected[i][2]) # expected[i][1]
       THEN /\ Goto(1, "bad_collapse")
            /\ UNCHANGED <<ctl, freedAccess, desired>>
       ELSE /\ ctl' = incremented(ctl, expected[i][1])
            /\ freedAccess' = freedAccess \cup released(ctl, expected[i][1])
            /\ desired' = [desired EXCEPT ![i] = <<nullptr, expected[i][2]>>]
            /\ UNCHANGED pc
    /\ UNCHANGED expected
    /\ UNCHANGED installed
    /\ UNCHANGED pointerFrame

\* wide_shared_ptr::collapse() &&
collapse_rvalue(i) ==
    /\ Idle(1)
    /\ wide /\ policy = "shared"
    /\ desired[i] = NullPair
    /\ ops[i] < MaxOps
    /\ ops' = [ops EXCEPT ![i] = @ + 1]
    /\ IF convert_value_to_control(expected[i][2]) # expected[i][1]
       THEN /\ Goto(1, "bad_collapse")
            /\ UNCHANGED <<expected, desired>>
       ELSE /\ expected' = [expected EXCEPT ![i] = NullPair]
            /\ desired' = [desired EXCEPT ![i] = <<nullptr, expected[i][2]>>]
            /\ UNCHANGED pc
    /\ UNCHANGED <<ctl, freedAccess>>
    /\ UNCHANGED installed
    /\ UNCHANGED pointerFrame

\* the handler of bad_collapse
catch_bad_collapse ==
    /\ pc[1] = "bad_collapse"
    /\ Goto(1, "idle")
    /\ UNCHANGED <<ctl, freedAccess, expected, desired, ops>>
    /\ UNCHANGED installed
    /\ UNCHANGED pointerFrame

\* ~shared_ptr of the pointer a collapse returned: decrement(m_value)
result_destroy(i) ==
    LET ctrl == convert_value_to_control(desired[i][2]) IN
    /\ Idle(1)
    /\ desired[i] # NullPair
    /\ ctl' = decremented(ctl, ctrl)
    /\ freedAccess' = freedAccess \cup released(ctl, ctrl)
    /\ desired' = [desired EXCEPT ![i] = NullPair]
    /\ UNCHANGED <<expected, ops, pc>>
    /\ UNCHANGED installed
    /\ UNCHANGED pointerFrame

NextPointer ==
    \/ \E i, j \in Ptrs : copy_assign(i, j)
    \/ \E i, j \in Ptrs : move_assign(i, j)
    \/ \E i \in Ptrs : ptr_reset(i)
    \/ \E i \in Ptrs : collapse_lvalue(i)
    \/ \E i \in Ptrs : collapse_rvalue(i)
    \/ \E i \in Ptrs : result_destroy(i)
    \/ catch_bad_collapse

SpecPointer == InitPointer /\ [][NextPointer]_vars

(***************************************************************************)
(* Properties of the pointer classes (SpecPointer).                        *)
(***************************************************************************)
\* C31: collapse throws bad_collapse exactly when the control pointer is not
\* the control block that lies sizeof_convertible_control in front of the
\* value pointer (an empty pointer has neither); when it throws, the
\* counters and every pointer are unchanged, for the lvalue and the rvalue
\* overload; when it does not, the shared_ptr returned holds the value
\* pointer and one reference on that block, a new one (lvalue) or the one of
\* the wide pointer, which is left empty (rvalue).
CollapseThrowsOnMismatch ==
    [][ \A i \in Ptrs :
          ops'[i] = ops[i] + 1 =>
             LET p == expected[i]
                 inFront == \/ p = NullPair
                            \/ p[2] # nullptr /\ p[1] # nullptr
                               /\ p[2] = p[1] + sizeof_convertible_control
             IN
             /\ pc'[1] = "bad_collapse" <=> ~inFront
             /\ pc'[1] = "bad_collapse" =>
                   UNCHANGED <<ctl, expected, desired, freedAccess, failed>>
             /\ pc'[1] # "bad_collapse" =>
                   /\ desired'[i] = <<nullptr, p[2]>>
                   /\ \/ /\ expected' = expected
                         /\ \A b \in Blocks :
                               ctl'[b].m_counter
                                  = ctl[b].m_counter + (IF b = p[1] THEN shared_one ELSE 0)
                      \/ /\ expected' = [expected EXCEPT ![i] = NullPair]
                         /\ ctl' = ctl
      ]_vars

\* collapse of a pointer to a base inside the value has thrown while another
\* pointer to the same block had been collapsed
CollapseThrowsWitness ==
    /\ pc[1] = "bad_collapse"
    /\ \E i, j \in Ptrs :
          /\ expected[i] = <<4, 7>> /\ ops[i] > 0
          /\ desired[j] = <<nullptr, 6>>

(***************************************************************************)
(* Further properties of the counter protocol (SpecCounter).               *)
(***************************************************************************)
\* C32 as stated: at the moment deallocate is called both halves of the
\* counter are zero.
DeallocateAtZero ==
    [][ deallocCalls' # deallocCalls => m_counter = 0 ]_vars

\* C32: deallocate is called only when no reference is left: by shared_dec
\* and by the subtracting path of weak_dec with both halves of the counter
\* zero, by the fast path of weak_dec with the counter equal to weak_one (the
\* caller's own unit, which it does not subtract) and the value half zero.
DeallocateAtLastReference ==
    [][ \A t \in Threads :
          (pc[t] \in {"sd_deallocate", "wd_deallocate", "wd_deallocate_fast"}
              /\ pc'[t] = "idle") =>
             /\ deallocCalls' = Append(deallocCalls, t)
             /\ m_counter = (IF pc[t] = "wd_deallocate_fast" THEN weak_one ELSE 0)
             /\ to_value_count(m_counter) = 0
             /\ HeldStrong = 0 /\ HeldWeak = 0
             /\ m_counter' = m_counter
      ]_vars

\* destruct has run and the last weak reference is being released on the
\* fast path: deallocate is about to be called with the counter at weak_one
DeallocateFastWitness ==
    \E t \in Threads :
        /\ pc[t] = "wd_deallocate_fast"
        /\ m_counter = weak_one
        /\ destructCalls # <<>>
        /\ \A u \in Threads \ {t} : pc[u] = "idle"

(***************************************************************************)
(* Further properties of the double word atomic (SpecAtomic).              *)
(***************************************************************************)
\* C33: on the double word atomic bit_notify of the control word changes
\* exactly in the unlock_store of a store, exchange or successful
\* compare_exchange that changed the value pointer and left the control
\* pointer the same (the case its body computed as toggle_notify); every
\* other step leaves the bit as it was.
NotifyBitFlipsOnValueChangeOnly ==
    [][ wide =>
          /\ \A t \in Users :
                (pc[t] \in {"store_body", "exchange_body", "cas_body"}
                   /\ pc'[t] \in {"store_unlock", "exchange_unlock", "cas_unlock_success"}) =>
                      toggle_notify'[t] = (/\ m_value' # m_value
                                           /\ desired[t][1] = acv_sans_meta(m_ctrl))
          /\ (has_bit(m_ctrl', bit_notify) # has_bit(m_ctrl, bit_notify)) <=>
                \E t \in Users :
                   /\ pc[t] \in {"store_unlock", "exchange_unlock", "cas_unlock_success"}
                   /\ pc'[t] # pc[t]
                   /\ toggle_notify[t]
      ]_vars

\* C34: on the double word atomic a waiter about to block in m_ctrl.wait on
\* the unlocked word it snapshotted (control pointer plus bit_notify) finds
\* that word still there only if the stored pair still is the pair of its
\* snapshot, which equalled old: the same unlocked word means the same pair.
SameWordSamePair ==
    \A w \in Users :
        (wide /\ pc[w] = "wait_atomic" /\ m_ctrl = ctrl_meta[w]) => Stored = expected[w]

\* C35: the lock bit of the control word is set only by a successful
\* compare-exchange of lock_load_expected and cleared only by the
\* unlock_store of the thread that set it; while it is set no other thread's
\* compare-exchange on the word succeeds, the one of lock_exchange included,
\* and the word and the value word are changed by the holder alone (the
\* value word is never changed while the bit is clear).
LockBitOwnedByHolder ==
    [][ LET locked == has_bit(m_ctrl, bit_locked)
            locked2 == has_bit(m_ctrl', bit_locked)
            holderSteps == {t \in Users : pc[t] \in Critical /\ pc'[t] # pc[t]}
        IN
        /\ (~locked /\ locked2) =>
              \E t \in Users : /\ pc[t] \in LockLabels
                               /\ pc'[t] \in Critical
                               /\ m_ctrl = ctrl_meta[t]
                               /\ InCritical = {}
        /\ (locked /\ ~locked2) =>
              \E t \in Users : /\ InCritical = {t}
                               /\ pc'[t] \notin Critical
        /\ (locked /\ (m_ctrl' # m_ctrl \/ m_value' # m_value)) => holderSteps # {}
        /\ (~locked /\ locked2 = locked) => m_value' = m_value
        /\ \A t \in Users :
              (pc[t] \in LockLabels \cup {"exchange_cas"} /\ pc'[t] # pc[t]) => ~locked
      ]_vars

\* on the single word atomic a thread is in the compare-exchange loop of
\* lock_exchange while another thread holds the lock bit
LockBitOwnedWitness ==
    \E t, u \in Users :
        /\ ~wide
        /\ pc[t] = "exchange_cas"
        /\ pc[u] \in Critical
        /\ has_bit(m_ctrl, bit_locked)
        /\ ctrl_meta[t] = clear_bit(m_ctrl, bit_locked)

\* C36: no step a thread takes between its locking compare-exchange and its
\* unlock_store lowers a counter or sets off destruct or deallocate: the one
\* counter operation made there is the Policy::increment of load and of the
\* failure path of compare_exchange, on the block stored.  The decrements
\* of store and compare_exchange are made by a thread that has unlocked.
DecrementAfterUnlock ==
    [][ \A t \in Users :
          /\ (pc[t] \in Critical /\ pc'[t] # pc[t]) =>
                /\ \A b \in Blocks :
                      /\ ctl'[b].m_counter >= ctl[b].m_counter
                      /\ ctl'[b].m_destructed = ctl[b].m_destructed
                      /\ ctl'[b].m_deallocated = ctl[b].m_deallocated
                /\ ctl' # ctl =>
                      /\ pc[t] \in {"load_body", "cas_body"}
                      /\ pc'[t] \in {"load_unlock", "cas_unlock_failure"}
                      /\ \A b \in Blocks : ctl'[b] # ctl[b] => b = BlockOf(m_ctrl)
          /\ (pc[t] \in {"store_decrement", "cas_decrement_previous",
                         "cas_decrement_expected", "cas_decrement_desired"}
                /\ pc'[t] # pc[t]) =>
                /\ InCritical \subseteq Users \ {t}
                /\ \A b \in Blocks : ctl'[b].m_counter <= ctl[b].m_counter
      ]_vars

\* a thread that has unlocked after a successful compare_exchange is about to
\* decrement the previous pointer while the other thread holds the lock
DecrementAfterUnlockWitness ==
    \E t, u \in Users :
        /\ pc[t] = "cas_decrement_previous"
        /\ pc[u] \in Critical
        /\ has_bit(m_ctrl, bit_locked)

\* C37: whenever no thread is between a locking compare-exchange and its
\* unlock_store, in particular whenever no load, store, exchange,
\* compare_exchange or wait is in progress, the lock bit of the control word
\* is clear; the pointer the destructor would then decrement through (the
\* word without bit_notify on the double word atomic, the word itself on the
\* single word atomic) is a control block or nullptr, without the lock bit.
LockClearWhenQuiescent ==
    /\ InCritical = {} => ~has_bit(m_ctrl, bit_locked)
    /\ (\A t \in Users : Idle(t)) =>
          LET ctrl == IF wide THEN acv_destructor_ctrl(m_ctrl) ELSE m_ctrl IN
          /\ ~has_bit(ctrl, bit_locked)
          /\ ctrl \in Blocks \cup {nullptr}

\* both threads have made all their calls, three pairs were installed and
\* the word carries bit_notify
LockClearWitness ==
    /\ wide
    /\ \A t \in Users : Idle(t) /\ ops[t] = MaxOps
    /\ has_bit(m_ctrl, bit_notify)
    /\ Cardinality(installed) >= 3

\* C38: compare_exchange on the double word atomic takes its success path
\* if and only if the stored control pointer, with bit_locked and bit_notify
\* cleared, equals the expected control pointer and the stored value pointer
\* equals the expected value pointer, whatever bit_notify is; otherwise, so
\* also when only the value pointers differ, it takes the failure path and
\* reports the stored pair.
CasComparesPairWithoutBits ==
    [][ \A t \in Users :
          /\ (wide /\ pc[t] = "cas_body" /\ pc'[t] # pc[t]) =>
                LET stored == <<clear_bit(clear_bit(m_ctrl, bit_locked), bit_notify), m_value>>
                IN
                /\ pc'[t] \in {"cas_unlock_success", "cas_unlock_failure"}
                /\ pc'[t] = "cas_unlock_success" <=> stored = expected[t]
                /\ pc'[t] = "cas_unlock_failure" =>
                      /\ <<clear_bit(ctrl_meta[t], bit_notify), value'[t]>> = stored
                      /\ UNCHANGED <<m_ctrl, m_value, ctrl_meta>>
          /\ (wide /\ pc[t] = "cas_decrement_expected" /\ pc'[t] # pc[t]) =>
                /\ expected'[t] = <<clear_bit(ctrl_meta[t], bit_notify), value[t]>>
                /\ expected'[t] # expected[t]
                /\ expected'[t] \in installed
      ]_vars

\* a compare_exchange found its expected pair in a word that carries
\* bit_notify and is on its success path
CasWithoutBitsWitness ==
    \E t \in Users :
        /\ wide
        /\ pc[t] = "cas_unlock_success"
        /\ has_bit(m_ctrl, bit_notify)
        /\ has_bit(ctrl_meta[t], bit_notify)

\* C39 as stated: a copy or move assignment from a pointer to the same
\* control block invokes no callback and leaves the target on the same block
\* with the same counts as before.
AssignSameBlockSameCounts ==
    [][ \A i, j \in Ptrs :
          (/\ copy_assign(i, j) \/ move_assign(i, j)
           /\ ControlOf(expected[j]) # nullptr
           /\ ControlOf(expected[i]) = ControlOf(expected[j])) =>
             /\ ControlOf(expected'[i]) = ControlOf(expected[i])
             /\ ctl' = ctl
      ]_vars

\* C39: a copy or move assignment of a shared_ptr, weak_ptr, wide_shared_ptr
\* or wide_weak_ptr from a pointer to the same control block, self-assignment
\* of the sole owner included, invokes neither destruct nor deallocate and
\* touches no released block; the target holds the source's pointer, on the
\* same block, afterwards.  The counter is as before after a copy assignment
\* and a self-assignment; after a move assignment from another pointer object
\* it is lower by the one reference the emptied source gave up.
AssignSameBlockNoCallback ==
    [][ \A i, j \in Ptrs :
          (/\ copy_assign(i, j) \/ move_assign(i, j)
           /\ ControlOf(expected[j]) # nullptr
           /\ ControlOf(expected[i]) = ControlOf(expected[j])) =>
             LET b == ControlOf(expected[i])
                 moved == i # j /\ expected'[j] = NullPair
                 one == IF policy = "shared" THEN shared_one ELSE weak_one
             IN
             /\ expected'[i] = expected[j]
             /\ ControlOf(expected'[i]) = b
             /\ ctl'[b].m_destructed = ctl[b].m_destructed
             /\ ctl'[b].m_deallocated = ctl[b].m_deallocated
             /\ ~ctl'[b].m_deallocated
             /\ ctl'[b].m_counter = ctl[b].m_counter - (IF moved THEN one ELSE 0)
             /\ ctl'[b].m_counter >= one
             /\ \A c \in Blocks \ {b} : ctl'[c] = ctl[c]
             /\ freedAccess' = freedAccess
      ]_vars

\* the sole owner of a block holds a pointer that was assigned to it, the
\* other pointer objects are empty, and the block is live
AssignSameBlockWitness ==
    \E i \in Ptrs :
        /\ expected[i] \in installed
        /\ ControlOf(expected[i]) = 4
        /\ \A j \in Ptrs \ {i} : expected[j] = NullPair
        /\ \A j \in Ptrs : desired[j] = NullPair
        /\ ctl[4].m_counter = (IF policy = "shared" THEN shared_one ELSE weak_one)
        /\ ~ctl[4].m_deallocated

(***************************************************************************)
(* The order of the unlock store that ends load().                         *)
(***************************************************************************)
\* the step by which thread t ends the critical section of a load
LoadUnlocks(t) ==
    /\ pc[t] \in {"load_body", "load_unlock"}
    /\ pc'[t] # pc[t]
    /\ has_bit(m_ctrl, bit_locked) /\ ~has_bit(m_ctrl', bit_locked)

\* C40 as stated: the unlock store that ends a load on the double word
\* atomic is made with sequentially consistent ordering.
WideLoadUnlocksSeqCst ==
    [][ \A t \in Users : (wide /\ LoadUnlocks(t)) => load_unlock_order = "seq_cst" ]_vars

\* C40: the unlock store that ends a load is made with seq_cst ordering on
\* the single word atomic and with release ordering on the double word
\* atomic; either order keeps the writes made before the store ahead of it,
\* so on both atomics the increment of a load takes effect while the loading
\* thread holds the lock, before its unlock store, and the block loaded
\* counts the reference returned when the lock is given up.
LoadIncrementBeforeUnlock ==
    [][ \A t \in Users :
          /\ LoadUnlocks(t) =>
                /\ load_unlock_order = (IF wide THEN "release" ELSE "seq_cst")
                /\ store_orders_prior_writes(load_unlock_order)
                /\ pc[t] = "load_unlock" /\ pc'[t] = "idle"
                /\ expected'[t][1] = BlockOf(m_ctrl)
                /\ UNCHANGED ctl
                /\ BlockOf(m_ctrl) # nullptr =>
                      /\ ~ctl[BlockOf(m_ctrl)].m_deallocated
                      /\ Refs(ctl[BlockOf(m_ctrl)]) >= 2
          /\ (pc[t] \in {"load_body", "load_increment"} /\ pc'[t] # pc[t] /\ ctl' # ctl) =>
                /\ pc[t] = "load_body"
                /\ has_bit(m_ctrl, bit_locked) /\ m_ctrl' = m_ctrl
                /\ ctrl_meta[t] = clear_bit(m_ctrl, bit_locked)
                /\ RefsChange(m_ctrl, 1)
      ]_vars

\* a load on the double word atomic has raised the count of the block stored
\* and is about to unlock, while the other thread waits for the lock in a
\* store that will release the block
LoadIncrementBeforeUnlockWitness ==
    \E t, u \in Users :
        /\ wide /\ pc[t] = "load_unlock" /\ pc[u] = "store_lock"
        /\ has_bit(m_ctrl, bit_locked)
        /\ BlockOf(m_ctrl) # nullptr
        /\ desired[u][1] # BlockOf(m_ctrl)
        /\ Refs(ctl[BlockOf(m_ctrl)]) = 2

====
